---- MODULE Spec2Model ----
(***************************************************************************)
(* Model of the secure LLM gateway:                                        *)
(*   - guardrails_lib.GuardrailsEngine (short-circuiting guardrail list)   *)
(*     with the default guardrails of sentinel/defaults,                   *)
(*   - the gateway handler chat_completions of app/main.py,                *)
(*   - the sentinel GuardrailsEngine (scan / _package_result / validate).  *)
(*                                                                         *)
(* Text is a sequence of tokens.  A token stands for a maximal piece of    *)
(* text that the regular expressions of the detectors see as one unit (an  *)
(* e-mail address, a phone number, a keyword, a plain word); the tokens of *)
(* a text are separated by single spaces in the real string.  A detector's *)
(* regex is modelled by the table saying which tokens it matches, and      *)
(* re.sub by replacing every matching token.                               *)
(***************************************************************************)
EXTENDS Integers, Sequences, FiniteSets, TLC

VARIABLES
    \* ---- guardrails_lib engine under test
    lib_guardrails,   \* GuardrailsEngine.guardrails: sequence of guardrail kinds
    lib_text,         \* argument of the last validate call (NoCall before any)
    lib_calls,        \* guardrail.validate calls made by the last validate, in order
    lib_result,       \* value returned by the last validate
    \* ---- gateway (app/main.py)
    use_mock_llm,     \* USE_MOCK_LLM
    gw_pc,            \* "idle" | "awaiting" (suspended in http_client.post) | "done"
    gw_request,       \* the ChatCompletionRequest being served
    gw_input_text,    \* input_text
    gw_verdict,       \* result = guards.validate(input_text)
    gw_payload,       \* payload = request.model_dump(...)
    gw_upstream,      \* what was POSTed: [url, dialect, body] (NoUpstream before)
    gw_reply,         \* what the upstream answered (NoReply before / without one)
    gw_response,      \* the JSONResponse returned to the client
    gw_audit,         \* log_request tasks scheduled for this request
    gw_trace,         \* steps the handler has executed for this request, in order
    \* ---- sentinel engine
    eng_cfg,          \* the profile the engine was constructed from
    eng_shadow,       \* engine.shadow_mode
    eng_call,         \* last call: [op, text] (op "none" before any)
    eng_scan,         \* what scan / scan_async returned and which checks it invoked
    eng_result,       \* the GuardrailResult returned by the last call
    eng_audit,        \* events received by audit_logger.log, in order
    \* ---- concurrent callers of one sentinel engine
    th_calls,         \* per caller: [pc, op, text, st (the locals of its scan), result]
    plugin_model,     \* LangKitPlugin.model: how often it was created (0: no attribute)
    \* ---- StreamSanitizer
    str_chunks,       \* the chunks passed to process so far, in order
    str_buffer,       \* StreamSanitizer.buffer
    str_out,          \* the strings yielded so far by process and flush, in order
    str_validated,    \* per engine call: [sentence, separator, result, emitted]
    str_flushed,      \* flush has been called
    \* ---- a function applied to an argument (router, adapters, factory, detectors)
    fn_arg,           \* the argument of the call (NoArg before any)
    fn_ret,           \* what the call returned (NoRet before any)
    \* ---- RateLimitMiddleware
    rl_requests,      \* RateLimitMiddleware.requests: client_ip -> recorded timestamps
    rl_now,           \* the clock read by time.time()
    rl_calls,         \* per dispatch call in progress: [pc, client_ip, path, current_time]
    rl_log            \* what each finished critical section decided, in lock order

vars == << lib_guardrails, lib_text, lib_calls, lib_result,
           use_mock_llm, gw_pc, gw_request, gw_input_text, gw_verdict, gw_payload,
           gw_upstream, gw_reply, gw_response, gw_audit, gw_trace,
           eng_cfg, eng_shadow, eng_call, eng_scan, eng_result, eng_audit,
           th_calls, plugin_model,
           str_chunks, str_buffer, str_out, str_validated, str_flushed,
           fn_arg, fn_ret, rl_requests, rl_now, rl_calls, rl_log >>

lib_vars == << lib_guardrails, lib_text, lib_calls, lib_result >>
gw_vars  == << use_mock_llm, gw_pc, gw_request, gw_input_text, gw_verdict, gw_payload,
               gw_upstream, gw_reply, gw_response, gw_audit, gw_trace >>
eng_vars == << eng_cfg, eng_shadow, eng_call, eng_scan, eng_result, eng_audit >>
th_vars  == << th_calls, plugin_model >>
str_vars == << str_chunks, str_buffer, str_out, str_validated, str_flushed >>
fn_vars  == << fn_arg, fn_ret >>
rl_vars  == << rl_requests, rl_now, rl_calls, rl_log >>

-----------------------------------------------------------------------------
(* Bounds *)

MaxTextLen == 2        \* tokens per text
MaxGuardrails == 3     \* guardrails registered in a guardrails_lib engine
MaxMessages == 2       \* messages per chat request
MaxCalls == 2          \* calls whose audit events a recording logger keeps
MaxStreamLen == 4      \* pieces of text in a stream
MaxNameLen == 3        \* pieces of text in a model name
MaxTime == 3           \* seconds the clock of the rate limiter runs
MaxDispatches == 4     \* /v1/ requests that pass the rate limiter's lock

-----------------------------------------------------------------------------
(* Generic helpers *)

\* a function that was not applied yet: no argument, nothing returned
NoArg == "-"
NoRet == [op |-> "none", value |-> "-"]

\* what a call of the function op returned
Returned(op, value) == [op |-> op, value |-> value]

SeqsUpTo(S, n) == UNION { [1..k -> S] : k \in 0..n }

RECURSIVE JoinWith(_, _)
\* sep.join(strs) for a sequence of strings
JoinWith(sep, strs) ==
    IF strs = << >> THEN ""
    ELSE IF Len(strs) = 1 THEN strs[1]
    ELSE strs[1] \o sep \o JoinWith(sep, Tail(strs))

\* the elements of s at which Keep holds, in order
Filter(s, Keep(_)) == SelectSeq(s, Keep)

MapSeq(s, F(_)) == [i \in 1..Len(s) |-> F(s[i])]

Contains(s, x) == \E i \in 1..Len(s) : s[i] = x

\* s without repeated elements, first occurrences kept
RECURSIVE Dedup(_)
Dedup(s) ==
    IF s = << >> THEN << >>
    ELSE LET r == Dedup(SubSeq(s, 1, Len(s) - 1))
         IN IF Contains(r, s[Len(s)]) THEN r ELSE Append(r, s[Len(s)])

-----------------------------------------------------------------------------
(* Tokens *)

TokHello  == "hello"
TokEmail  == "test@example.com"
TokPhone  == "555-123-4567"
TokInject == "Ignore previous instructions"
TokSecret == "sk-abcdefghijklmnopqrstuvwxyz012345"
TokToxic  == "toxic"

\* str.lower() on a token
Lower(tok) == IF tok = TokInject THEN "ignore previous instructions" ELSE tok

TokSSN    == "123-45-6789"
\* ten digits, and an e-mail address with the ten digits right behind it: no word
\* boundary lies between the last letter of the address and the first digit
PhoneDigits == "5551234567"
TokEmailDigits == "test@example.com5551234567"

-----------------------------------------------------------------------------
(* GuardrailResult and the default guardrails (sentinel/defaults)           *)

\* GuardrailResult(valid, sanitized_text, reason, action)
Result(valid, sanitized_text, reason, action) ==
    [valid |-> valid, sanitized_text |-> sanitized_text, reason |-> reason, action |-> action]

\* PromptInjectionGuardrail.injection_keywords (those the token alphabet can hit first)
InjectionKeywords == << "ignore previous instructions", "ignore all instructions",
                        "system override", "dan mode", "do anything now",
                        "unfiltered", "jailbreak" >>

\* keyword in lower_text
KeywordInText(keyword, text) == \E i \in 1..Len(text) : Lower(text[i]) = keyword

\* PromptInjectionGuardrail.validate
InjectionValidate(text) ==
    LET hits == { k \in 1..Len(InjectionKeywords) : KeywordInText(InjectionKeywords[k], text) }
    IN IF hits # {}
       THEN LET k == CHOOSE h \in hits : \A g \in hits : h <= g
            IN Result(FALSE, text,
                      "Prompt Injection Detected: '" \o InjectionKeywords[k] \o "'", "blocked")
       ELSE Result(TRUE, text, "Passed Injection Check", "allowed")

\* SecretDetectionGuardrail.secret_patterns: the names, in dict order
SecretPatternNames == << "AWS Ability Key", "AWS Secret Key", "OpenAI Key",
                         "Generic Private Key", "GitHub Token", "Google Service Account",
                         "Google API Key", "Slack Token", "Stripe Secret", "Env File Pattern" >>

\* re.search(pattern, text) for the secret pattern called name, on one token
SecretMatches(name, tok) == name = "OpenAI Key" /\ tok = TokSecret

\* SecretDetectionGuardrail.validate
SecretValidate(text) ==
    LET Hit(name) == \E i \in 1..Len(text) : SecretMatches(name, text[i])
        found_secrets == Filter(SecretPatternNames, Hit)
    IN IF found_secrets # << >>
       THEN Result(FALSE, text, "Secrets detected: " \o JoinWith(", ", found_secrets), "blocked")
       ELSE Result(TRUE, text, "No secrets found", "allowed")

\* PIIGuardrail.pii_patterns: the kinds, in dict order
PiiDefaultKinds == << "EMAIL", "PHONE", "SSN", "CREDIT_CARD" >>

\* does the PII regex of that kind match the token
PiiMatches(kind, tok) ==
    \/ kind = "EMAIL" /\ tok = TokEmail
    \/ kind = "PHONE" /\ tok = TokPhone
    \/ kind = "SSN"   /\ tok = TokSSN

\* the literal f"<{kind}_REDACTED>"
RedactionTag(kind) == "<" \o kind \o "_REDACTED>"

\* re.search(pattern, text)
PiiSearch(kind, text) == \E i \in 1..Len(text) : PiiMatches(kind, text[i])

\* re.sub(pattern, f"<{kind}_REDACTED>", text)
PiiSub(kind, text) ==
    [i \in 1..Len(text) |-> IF PiiMatches(kind, text[i]) THEN RedactionTag(kind) ELSE text[i]]

RECURSIVE PiiLoop(_, _, _)
\* the loop of PIIGuardrail.validate over the patterns still to apply
PiiLoop(kinds, sanitized, redacted_types) ==
    IF kinds = << >> THEN [sanitized |-> sanitized, redacted_types |-> redacted_types]
    ELSE IF PiiSearch(Head(kinds), sanitized)
         THEN PiiLoop(Tail(kinds), PiiSub(Head(kinds), sanitized),
                      Append(redacted_types, Head(kinds)))
         ELSE PiiLoop(Tail(kinds), sanitized, redacted_types)

\* PIIGuardrail.validate
PiiValidate(text) ==
    LET r == PiiLoop(PiiDefaultKinds, text, << >>)
    IN Result(TRUE, r.sanitized,
              IF r.redacted_types # << >> THEN "PII Redacted" ELSE "No PII found",
              IF r.redacted_types # << >> THEN "redacted" ELSE "none")

\* ProfanityGuardrail.bad_words
ProfanityMatches(tok) == tok = TokToxic

\* "*" * len(m.group()) for the matched bad word
Stars(tok) == IF tok = TokToxic THEN "*****" ELSE tok

\* ProfanityGuardrail(mode="redact").validate
ProfanityRedactValidate(text) ==
    LET sanitized == [i \in 1..Len(text) |->
                        IF ProfanityMatches(text[i]) THEN Stars(text[i]) ELSE text[i]]
    IN IF sanitized # text
       THEN Result(TRUE, sanitized, "Profanity redacted", "redacted")
       ELSE Result(TRUE, text, "Clean content", "allowed")

\* the guardrail classes an engine can be given
GuardrailKinds == { "injection", "secret", "pii", "profanity_redact" }

\* guardrail.validate(text), by class
GuardrailValidate(kind, text) ==
    CASE kind = "injection" -> InjectionValidate(text)
      [] kind = "secret" -> SecretValidate(text)
      [] kind = "pii" -> PiiValidate(text)
      [] kind = "profanity_redact" -> ProfanityRedactValidate(text)

-----------------------------------------------------------------------------
(* guardrails_lib.GuardrailsEngine                                          *)

\* mutant of LibStopsAt: a blocking result does not end the loop
LibStopsAtNever(result) == FALSE

\* "if not result.valid: return result"
LibStopsAt(result) == ~result.valid

\* "current_text = result.sanitized_text"
LibNextText(current_text, result) == result.sanitized_text

RECURSIVE LibLoop(_, _, _, _)
\* the for loop of GuardrailsEngine.validate from guardrail i on; calls is the
\* record of the guardrail.validate calls made so far
LibLoop(guardrails, i, current_text, calls) ==
    IF i > Len(guardrails)
    THEN [result |-> Result(TRUE, current_text, "Passed all guardrails", "allowed"),
          calls |-> calls]
    ELSE LET result == GuardrailValidate(guardrails[i], current_text)
             made == Append(calls, [kind |-> guardrails[i], text |-> current_text])
         IN IF LibStopsAt(result)
            THEN [result |-> result, calls |-> made]
            ELSE LibLoop(guardrails, i + 1, LibNextText(current_text, result), made)

\* GuardrailsEngine.validate(text): the returned result and the calls it made
LibEngineValidate(guardrails, text) == LibLoop(guardrails, 1, text, << >>)

\* the guardrail classes and texts the engine under test is exercised with
LibKinds == { "injection", "pii", "profanity_redact" }
LibTokens == { TokHello, TokEmail, TokInject, TokToxic }
LibTexts == SeqsUpTo(LibTokens, MaxTextLen)

NoCall == << "-" >>
NoResult == Result(TRUE, << "-" >>, "", "-")

\* GuardrailsEngine.__init__(guardrails): no call made yet
InitLib ==
    /\ lib_guardrails \in SeqsUpTo(LibKinds, 1)
    /\ lib_text = NoCall
    /\ lib_calls = << >>
    /\ lib_result = NoResult

\* GuardrailsEngine.add_guardrail; the record of the last call describes the
\* engine as it was configured, so it is dropped when the list changes
LibAddGuardrail(g) ==
    /\ Len(lib_guardrails) < MaxGuardrails
    /\ lib_guardrails' = Append(lib_guardrails, g)
    /\ lib_text' = NoCall
    /\ lib_calls' = << >>
    /\ lib_result' = NoResult

\* a call engine.validate(text)
LibValidate(text) ==
    LET run == LibEngineValidate(lib_guardrails, text)
    IN /\ lib_text' = text
       /\ lib_calls' = run.calls
       /\ lib_result' = run.result
       /\ UNCHANGED lib_guardrails


-----------------------------------------------------------------------------
(* LLMRouter and APIAdapter (app/core)                                      *)

\* a model name is a sequence of pieces of text; its string is their concatenation
ModelString(model) == JoinWith("", model)

\* str.lower() on a piece of a model name
LowerPart(part) ==
    CASE part = "GPT" -> "gpt"
      [] part = "Claude" -> "claude"
      [] part = "Gemini" -> "gemini"
      [] OTHER -> part

\* mutant of LowerModel: the name is compared as given
LowerModelAsGiven(model) == model

\* model.lower()
LowerModel(model) == [i \in DOMAIN model |-> LowerPart(model[i])]

\* model.startswith(prefix)
StartsWith(model, prefix) ==
    Len(model) >= Len(prefix) /\ SubSeq(model, 1, Len(prefix)) = prefix

\* the keys LLMRouter.__init__ reads from the environment
OpenaiKey == "OPENAI_KEY"
AnthropicKey == "ANTHROPIC_KEY"
GeminiKey == "GEMINI_KEY"
XaiKey == "XAI_KEY"

\* LLMRouter.local_url (default of TARGET_LLM_URL)
LocalUrl == "http://localhost:11434/v1/chat/completions"

\* LLMRouter.get_route: (url, headers, adapter_type)
GetRoute(model_name) ==
    LET model == LowerModel(model_name)
    IN IF StartsWith(model, << "gpt", "-" >>) \/ StartsWith(model, << "o1", "-" >>)
       THEN [url |-> "https://api.openai.com/v1/chat/completions",
             headers |-> [Authorization |-> "Bearer " \o OpenaiKey,
                          ContentType |-> "application/json"],
             adapter_type |-> "openai"]
       ELSE IF StartsWith(model, << "claude", "-" >>)
       THEN [url |-> "https://api.anthropic.com/v1/messages",
             headers |-> [XApiKey |-> AnthropicKey, AnthropicVersion |-> "2023-06-01",
                          ContentType |-> "application/json"],
             adapter_type |-> "anthropic"]
       ELSE IF StartsWith(model, << "gemini", "-" >>)
       THEN [url |-> "https://generativelanguage.googleapis.com/v1beta/models/"
                      \o ModelString(model) \o ":generateContent?key=" \o GeminiKey,
             headers |-> [ContentType |-> "application/json"],
             adapter_type |-> "gemini"]
       ELSE IF StartsWith(model, << "grok", "-" >>)
       THEN [url |-> "https://api.x.ai/v1/chat/completions",
             headers |-> [Authorization |-> "Bearer " \o XaiKey,
                          ContentType |-> "application/json"],
             adapter_type |-> "openai"]
       ELSE [url |-> LocalUrl,
             headers |-> [ContentType |-> "application/json"],
             adapter_type |-> "openai"]

\* the model names get_route is applied to
RouterParts == { "gpt", "GPT", "o1", "claude", "Claude", "gemini", "Gemini", "grok", "-", "llama3" }
RouterModels == SeqsUpTo(RouterParts, MaxNameLen)

\* a call router.get_route(model)
GetRouteCall ==
    /\ fn_ret = NoRet
    /\ fn_ret' = Returned("get_route", GetRoute(fn_arg))
    /\ UNCHANGED fn_arg

\* an absent text field (None / key not present)
NoText == << "-" >>
NoVerdict == [valid |-> TRUE, sanitized_text |-> NoText, reason |-> "", action |-> "-"]

\* max_tokens default of openai_to_anthropic
AnthropicDefaultMaxTokens == 1024

IsSystem(msg) == msg.role = "system"
NotSystem(msg) == msg.role # "system"

\* the value system_prompt / system_instruction has after the loop: the content of
\* the last system message seen, NoText when there is none
LastSystemContent(messages) ==
    LET sys == Filter(messages, IsSystem)
    IN IF sys = << >> THEN NoText ELSE sys[Len(sys)].content

\* APIAdapter.openai_to_anthropic
OpenaiToAnthropic(payload) ==
    LET system_prompt == LastSystemContent(payload.messages)
    IN [model |-> payload.model,
        messages |-> Filter(payload.messages, NotSystem),
        max_tokens |-> AnthropicDefaultMaxTokens,
        \* "if system_prompt:" is false for None and for the empty string
        system |-> IF system_prompt = << >> THEN NoText ELSE system_prompt]

\* the requests openai_to_anthropic is applied to
AdapterContents == { << TokHello >>, << TokEmail >>, << TokInject >> }
AdapterMessages == [role : { "system", "user", "assistant" }, content : AdapterContents]
AdapterPayloads ==
    [model : { << "claude", "-", "3-haiku" >> }, messages : SeqsUpTo(AdapterMessages, MaxMessages)]

\* a call APIAdapter.openai_to_anthropic(request_data)
OpenaiToAnthropicCall ==
    /\ fn_ret = NoRet
    /\ fn_ret' = Returned("openai_to_anthropic", OpenaiToAnthropic(fn_arg))
    /\ UNCHANGED fn_arg

\* the role mapping of openai_to_gemini
GeminiMessage(msg) ==
    [role |-> IF msg.role = "user" THEN "user" ELSE "model", content |-> msg.content]

\* APIAdapter.openai_to_gemini (contents as messages, systemInstruction as system)
OpenaiToGemini(payload) ==
    [model |-> payload.model,
     messages |-> MapSeq(Filter(payload.messages, NotSystem), GeminiMessage),
     max_tokens |-> 0,
     system |-> LastSystemContent(payload.messages)]

\* the pass-through of an OpenAI-compatible upstream
OpenaiPassThrough(payload) ==
    [model |-> payload.model, messages |-> payload.messages, max_tokens |-> 0,
     system |-> NoText]

\* step 5b of chat_completions
AdaptRequest(adapter_type, payload) ==
    IF adapter_type = "anthropic" THEN OpenaiToAnthropic(payload)
    ELSE IF adapter_type = "gemini" THEN OpenaiToGemini(payload)
    ELSE OpenaiPassThrough(payload)

-----------------------------------------------------------------------------
(* chat_completions (app/main.py)                                           *)

\* the guardrails the gateway constructs its engine with
GatewayGuardrails == << "injection", "secret", "pii" >>

\* index of the last message with role user, 0 when there is none
LastUserIndex(messages) ==
    LET users == { i \in 1..Len(messages) : messages[i].role = "user" }
    IN IF users = {} THEN 0 ELSE CHOOSE i \in users : \A j \in users : j <= i

\* step 1: input_text
InputText(messages) ==
    IF LastUserIndex(messages) = 0
    THEN IF messages # << >> THEN messages[Len(messages)].content ELSE << >>
    ELSE messages[LastUserIndex(messages)].content

\* the message whose content was extracted as input_text, 0 when there is none
ScannedIndex(messages) ==
    IF LastUserIndex(messages) # 0 THEN LastUserIndex(messages) ELSE Len(messages)

\* mutant of IsBlocked: the handler never takes the early return
IsBlockedNever(result) == FALSE

\* step 3: "if not result.valid"
IsBlocked(result) == ~result.valid

\* step 4: "if last_user_message: last_user_message.content = result.sanitized_text"
RewriteMessages(messages, sanitized_text) ==
    IF LastUserIndex(messages) # 0
    THEN [messages EXCEPT ![LastUserIndex(messages)].content = sanitized_text]
    ELSE messages

\* mutant of IsSuccessStatus: every 2xx status takes the success branch
IsSuccessStatusAny2xx(status_code) == status_code \in 200..299

\* "if status_code != 200" decides between the error and the success branch
IsSuccessStatus(status_code) == status_code = 200

\* mutant of AuditVerdict: every 2xx status is logged as passed
AuditVerdictAny2xx(status_code) ==
    IF status_code \in 200..299 THEN "PASSED" ELSE "FAILED_UPSTREAM_" \o ToString(status_code)

\* the verdict of the final log_request
AuditVerdict(status_code) ==
    IF status_code = 200 THEN "PASSED" ELSE "FAILED_UPSTREAM_" \o ToString(status_code)

ErrorResponse(status_code, message, code) ==
    [status_code |-> status_code, kind |-> "error", message |-> message, code |-> code,
     content |-> NoText]

CompletionResponse(status_code, content) ==
    [status_code |-> status_code, kind |-> "completion", message |-> "", code |-> "",
     content |-> content]

\* the JSONResponse of step 3
BlockedResponse(result) ==
    ErrorResponse(400, "Request blocked by security guardrails: " \o result.reason,
                  "security_policy_violation")

\* a log_request task
AuditTask(original_prompt, sanitized_prompt, verdict) ==
    [original_prompt |-> original_prompt, sanitized_prompt |-> sanitized_prompt,
     verdict |-> verdict]

\* the content of the mock response
MockContent(model, sanitized_text) ==
    << "Mock Response (" \o ModelString(model) \o "). Sanitized Input: '" >> \o sanitized_text \o << "'" >>

\* the text an upstream error body carries
UpstreamText == "upstream failure"

\* response_data of the "status_code != 200" branch, by the shape of the error body
UpstreamErrorResponse(status_code, body) ==
    CASE body = "openai_error" -> ErrorResponse(status_code, UpstreamText, "")
      [] body = "other_error" -> ErrorResponse(status_code, "Upstream Error: " \o UpstreamText, "")
      [] body \in { "no_error_key", "completion" } ->
             ErrorResponse(status_code, "Upstream Error: " \o UpstreamText, "")
      [] OTHER -> ErrorResponse(status_code,
                      "Upstream Error (" \o ToString(status_code) \o "): " \o UpstreamText, "")

\* step 5d: the adapted response of a 200 answer whose body is a completion in the
\* upstream's dialect with the assistant text content
AdaptResponse(adapter_type, content) == CompletionResponse(200, content)

\* the response after the upstream answered with status_code and a body of that shape;
\* a 200 body that cannot be decoded raises into the handler's "except Exception"
ResponseToReply(adapter_type, reply) ==
    IF ~IsSuccessStatus(reply.status)
    THEN UpstreamErrorResponse(reply.status, reply.body)
    ELSE IF reply.body = "completion"
    THEN AdaptResponse(adapter_type, reply.content)
    ELSE ErrorResponse(502, "Gateway Connection Failed: invalid body", "")

NoUpstream == [url |-> "-", dialect |-> "-", body |-> "-"]
NoReply == [kind |-> "-", status |-> 0, body |-> "-", content |-> NoText]
NoResponse == ErrorResponse(0, "", "")
NoRequest == [model |-> << "-" >>, messages |-> << >>]

GwModels == { << "gpt", "-", "4" >>, << "Claude", "-", "3-haiku" >>,
              << "gemini", "-", "1.5-flash" >>, << "llama3" >> }
GwRoles == { "system", "user", "assistant" }
\* message contents: clean, with an e-mail address, an injection, a secret
GwContents == { << TokHello >>, << TokHello, TokEmail >>, << TokInject >>, << TokSecret >> }
GwMessages == [role : GwRoles, content : GwContents]
GwRequests == [model : GwModels, messages : SeqsUpTo(GwMessages, MaxMessages)]

\* what an upstream can answer
UpstreamStatuses == { 200, 201, 500 }
ReplyContents == { << TokHello >>, << TokHello, TokEmail >> }
UpstreamReplies ==
    { [kind |-> "response", status |-> st, body |-> "completion", content |-> c] :
          st \in UpstreamStatuses, c \in ReplyContents }
    \cup
    { [kind |-> "response", status |-> st, body |-> b, content |-> NoText] :
          st \in UpstreamStatuses, b \in { "openai_error", "other_error", "not_json" } }

\* the handler from its entry to its first return or to the await of the POST
ChatCompletions(request) ==
    LET input_text == InputText(request.messages)
        result == LibEngineValidate(GatewayGuardrails, input_text).result
        payload == [model |-> request.model,
                    messages |-> RewriteMessages(request.messages, result.sanitized_text)]
        route == GetRoute(request.model)
    IN /\ gw_pc = "idle"
       /\ gw_request' = request
       /\ gw_input_text' = input_text
       /\ gw_verdict' = result
       /\ gw_reply' = NoReply
       /\ IF IsBlocked(result)
          THEN /\ gw_audit' = << AuditTask(input_text, result.sanitized_text,
                                     "BLOCKED: " \o (IF result.reason = "" THEN "Unknown"
                                                     ELSE result.reason)) >>
               /\ gw_response' = BlockedResponse(result)
               /\ gw_trace' = << "extract", "validate", "audit", "respond" >>
               /\ gw_pc' = "done"
               /\ UNCHANGED << gw_payload, gw_upstream >>
          ELSE IF use_mock_llm
          THEN /\ gw_payload' = payload
               /\ gw_response' = CompletionResponse(200,
                                     MockContent(request.model, result.sanitized_text))
               /\ gw_audit' = << AuditTask(input_text, result.sanitized_text, AuditVerdict(200)) >>
               /\ gw_trace' = << "extract", "validate", "rewrite", "mock", "audit", "respond" >>
               /\ gw_pc' = "done"
               /\ UNCHANGED gw_upstream
          ELSE /\ gw_payload' = payload
               /\ gw_upstream' = [url |-> route.url, dialect |-> route.adapter_type,
                                  body |-> AdaptRequest(route.adapter_type, payload)]
               /\ gw_trace' = << "extract", "validate", "rewrite", "route", "adapt", "post" >>
               /\ gw_pc' = "awaiting"
               /\ UNCHANGED << gw_response, gw_audit >>
       /\ UNCHANGED use_mock_llm

\* the rest of the handler once http_client.post returned a response
UpstreamResponds(reply) ==
    LET response == ResponseToReply(gw_upstream.dialect, reply)
    IN /\ gw_pc = "awaiting"
       /\ gw_reply' = reply
       /\ gw_response' = response
       /\ gw_audit' = Append(gw_audit, AuditTask(gw_input_text, gw_verdict.sanitized_text,
                                                 AuditVerdict(response.status_code)))
       /\ gw_trace' = gw_trace \o << "adapt_response", "audit", "respond" >>
       /\ gw_pc' = "done"
       /\ UNCHANGED << use_mock_llm, gw_request, gw_input_text, gw_verdict, gw_payload,
                       gw_upstream >>

\* the rest of the handler once http_client.post raised (connection error, timeout)
UpstreamFails ==
    /\ gw_pc = "awaiting"
    /\ gw_reply' = [kind |-> "transport_error", status |-> 0, body |-> "-", content |-> NoText]
    /\ gw_response' = ErrorResponse(502, "Gateway Connection Failed: transport", "")
    /\ gw_audit' = Append(gw_audit, AuditTask(gw_input_text, gw_verdict.sanitized_text,
                                              AuditVerdict(502)))
    /\ gw_trace' = gw_trace \o << "audit", "respond" >>
    /\ gw_pc' = "done"
    /\ UNCHANGED << use_mock_llm, gw_request, gw_input_text, gw_verdict, gw_payload,
                    gw_upstream >>

\* the response has been sent; the handler's locals are gone and the next request
\* can be served
RequestDone ==
    /\ gw_pc = "done"
    /\ gw_pc' = "idle"
    /\ gw_request' = NoRequest
    /\ gw_input_text' = NoText
    /\ gw_verdict' = NoVerdict
    /\ gw_payload' = NoRequest
    /\ gw_upstream' = NoUpstream
    /\ gw_reply' = NoReply
    /\ gw_response' = NoResponse
    /\ gw_audit' = << >>
    /\ gw_trace' = << >>
    /\ UNCHANGED use_mock_llm

-----------------------------------------------------------------------------
(* sentinel GuardrailsEngine: the checks of scan / scan_async               *)

TokTopic == "forbidden"
TokIdiot == "idiot"

\* an entry of triggered_rules: the string prefix + rest
Rule(prefix, rest) == [prefix |-> prefix, rest |-> rest]
RuleText(rule) == rule.prefix \o rule.rest

\* t.startswith("PII:")
StartsWithPII(rule) == rule.prefix = "PII:"

\* the engine's regex PII patterns: does the pattern called kind match the token
EngPiiMatches(kind, tok) ==
    \/ kind = "EMAIL" /\ tok \in { TokEmail, TokEmailDigits }
    \/ kind = "PHONE" /\ tok \in { TokPhone, RedactionTag("EMAIL") \o PhoneDigits }
    \/ kind = "SSN"   /\ tok = TokSSN

\* pattern.sub(msg, tok) on one token that the pattern matches: the match is the
\* whole token, or the part of it that the pattern matches
EngPiiSubToken(kind, tok) ==
    IF kind = "EMAIL" /\ tok = TokEmailDigits THEN RedactionTag("EMAIL") \o PhoneDigits
    ELSE IF kind = "PHONE" /\ tok = RedactionTag("EMAIL") \o PhoneDigits
    THEN RedactionTag("EMAIL") \o RedactionTag("PHONE")
    ELSE RedactionTag(kind)

\* pattern.search(sanitized_prompt)
EngPiiSearch(kind, text) == \E i \in 1..Len(text) : EngPiiMatches(kind, text[i])

\* mutant of EngPiiSub: only the first match is replaced (re.sub with count=1)
EngPiiSubFirstOnly(kind, text) ==
    [i \in 1..Len(text) |->
        IF EngPiiMatches(kind, text[i]) /\ \A j \in 1..(i - 1) : ~EngPiiMatches(kind, text[j])
        THEN EngPiiSubToken(kind, text[i]) ELSE text[i]]

\* pattern.sub(f"<{name}_REDACTED>", sanitized_prompt)
EngPiiSub(kind, text) ==
    [i \in 1..Len(text) |->
        IF EngPiiMatches(kind, text[i]) THEN EngPiiSubToken(kind, text[i]) ELSE text[i]]

\* the entity type Presidio's analyzer reports for a token ("" for none)
PresidioEntity(tok) ==
    IF tok = TokEmail THEN "EMAIL_ADDRESS"
    ELSE IF tok = TokPhone THEN "PHONE_NUMBER"
    ELSE ""

Reverse(s) == [i \in 1..Len(s) |-> s[Len(s) + 1 - i]]

\* the iteration order of the set detected_types: fixed for one process, one of
\* the orders of the types found
SetToList(set_order, types) == IF set_order = "reverse" THEN Reverse(types) ELSE types

\* PresidioAdapter.scan_and_redact: (anonymized text, ["PII:<type>", ...])
PresidioScanAndRedact(set_order, text) ==
    LET Found(i) == PresidioEntity(text[i]) # ""
        IsType(t) == t # ""
        detected_types == Dedup(Filter([i \in 1..Len(text) |-> PresidioEntity(text[i])], IsType))
        PiiRule(t) == Rule("PII:", t)
    IN [text |-> [i \in 1..Len(text) |->
                    IF Found(i) THEN RedactionTag(PresidioEntity(text[i])) ELSE text[i]],
        pii_types |-> MapSeq(SetToList(set_order, detected_types), PiiRule)]

\* the compiled injection regex (default keywords, IGNORECASE) on one token
InjectionPatternMatches(tok) == Contains(
    << "ignore previous instructions", "ignore all instructions", "system override",
       "dan mode", "do anything now", "unfiltered", "jailbreak", "developer mode",
       "system prompt", "original instructions" >>, Lower(tok))

\* the compiled topic regex for the block_list ["forbidden"] on one token
TopicPatternMatches(tok) == tok = TokTopic

\* topic_pattern.findall(sanitized_prompt)
TopicFindAll(text) == Filter(text, TopicPatternMatches)

\* BASE_JAILBREAK_INTENTS, the forbidden intents of a profile that adds none
ForbiddenIntents == << "ignore previous instructions", "jailbreak attempt",
                       "bypassing safety guardrails", "revealing system prompt",
                       "acting as an unfiltered AI", "performing restricted actions" >>

\* cosine similarity, in hundredths, of a token's embedding and an intent's
TokenSimilarity(tok, k) ==
    IF tok = TokInject THEN (IF k = 1 THEN 97 ELSE 40)
    ELSE IF tok = TokIdiot THEN 20
    ELSE 10

\* cosine_similarity(prompt_emb, forbidden_embeddings)[0][k], in hundredths
Similarity(text, k) ==
    IF text = << >> THEN 0
    ELSE LET vals == { TokenSimilarity(text[i], k) : i \in 1..Len(text) }
         IN CHOOSE v \in vals : \A w \in vals : w <= v

\* scores.argmax(): the first index holding the maximum
ArgMax(text) ==
    CHOOSE k \in 1..Len(ForbiddenIntents) :
        /\ \A j \in 1..Len(ForbiddenIntents) : Similarity(text, j) <= Similarity(text, k)
        /\ \A j \in 1..(k - 1) : Similarity(text, j) < Similarity(text, k)

\* semantic_threshold: the default 0.45, in hundredths
SemanticThreshold == 45

\* max_score > self.semantic_threshold
SemanticBlocks(max_score, threshold) == max_score > threshold

\* scores.argmax() on a vector of scores: the first index holding the maximum
ScoresArgMax(scores) ==
    CHOOSE k \in DOMAIN scores :
        /\ \A j \in DOMAIN scores : scores[j] <= scores[k]
        /\ \A j \in 1..(k - 1) : scores[j] < scores[k]

\* Step 4 of scan and scan_async on the scores of one input: whether a rule is
\* appended, the intent it names and the score it records
SemanticCheck(scores, threshold) ==
    LET max_index == ScoresArgMax(scores)
        max_score == scores[max_index]
    IN [blocked |-> SemanticBlocks(max_score, threshold),
        matched_intent |-> IF SemanticBlocks(max_score, threshold)
                           THEN ForbiddenIntents[max_index] ELSE "-",
        semantic_score |-> max_score]

\* similarities, in hundredths, and thresholds the check is applied to
ScoreValues == { 40, 45, 97 }
SemanticInputs ==
    [scores : [1..Len(ForbiddenIntents) -> ScoreValues], threshold : { SemanticThreshold, 97 }]

\* the semantic step applied to the scores of one input
SemanticCheckCall ==
    /\ fn_ret = NoRet
    /\ fn_ret' = Returned("semantic", SemanticCheck(fn_arg.scores, fn_arg.threshold))
    /\ UNCHANGED fn_arg

\* f"{x:.2f}" for x given in hundredths
FormatScore(h) ==
    ToString(h \div 100) \o "." \o (IF h % 100 < 10 THEN "0" ELSE "") \o ToString(h % 100)

\* the message of the exception Guard.validate raises for the toxic_check validator,
\* "" when the text passes
GuardExceptionText(text) ==
    IF Contains(text, TokIdiot) THEN "Toxic language detected: idiot" ELSE ""

\* GuardrailsAIAdapter.validate: the error string, "" for None
ExternalValidate(text) ==
    IF GuardExceptionText(text) = "" THEN ""
    ELSE "Guardrails Validation Failed: " \o GuardExceptionText(text)

\* DetoxifyModel.predict, in hundredths
ToxicityScore(text) == IF Contains(text, TokIdiot) THEN 93 ELSE 2

\* LangKitPlugin.threshold default 0.5, in hundredths
LangKitThreshold == 50

\* LangKitPlugin.scan: the error string, "" for None
LangKitScan(text) ==
    IF ToxicityScore(text) > LangKitThreshold
    THEN "LangKit: Toxicity detected (" \o FormatScore(ToxicityScore(text)) \o ")"
    ELSE ""

-----------------------------------------------------------------------------
(* sentinel GuardrailsEngine: scan, scan_async, _package_result             *)

\* one call of a check, recorded as an instrumented fake would record it
Invocation(check, text, rules) == [check |-> check, text |-> text, rules |-> rules]

\* the locals of scan at its entry
ScanStart(prompt) ==
    [ prompt |-> prompt, sanitized_prompt |-> prompt, triggered_rules |-> << >>,
      semantic_score |-> 0, invoked |-> << >>, raised |-> FALSE ]

\* for name, pattern in self.pii_patterns: search, sub, append
RECURSIVE EngPiiLoop(_, _, _, _)
EngPiiLoop(pii_patterns, i, text, rules) ==
    IF i > Len(pii_patterns) THEN [text |-> text, pii_types |-> rules]
    ELSE IF EngPiiSearch(pii_patterns[i], text)
         THEN EngPiiLoop(pii_patterns, i + 1, EngPiiSub(pii_patterns[i], text),
                         Append(rules, Rule("PII:", pii_patterns[i])))
         ELSE EngPiiLoop(pii_patterns, i + 1, text, rules)

\* self.presidio.scan_and_redact as the engine sees it: an error inside Presidio
\* is caught by the adapter, which hands the text back with no types
PresidioCall(cfg, text) ==
    IF cfg.broken = "pii" THEN [text |-> text, pii_types |-> << >>]
    ELSE PresidioScanAndRedact(cfg.set_order, text)

\* Step 1: PII redaction, by Presidio or by the compiled patterns
StepPii(cfg, st) ==
    IF cfg.pii = "off" \/ st.raised THEN st
    ELSE LET r == IF cfg.pii = "presidio"
                  THEN PresidioCall(cfg, st.sanitized_prompt)
                  ELSE EngPiiLoop(cfg.pii_patterns, 1, st.sanitized_prompt, << >>)
         IN [st EXCEPT !.sanitized_prompt = r.text,
                       !.triggered_rules = @ \o r.pii_types,
                       !.invoked = Append(@, Invocation("pii", st.sanitized_prompt, r.pii_types))]

\* what a check that found rules leaves in the locals
Checked(st, check, rules) ==
    [st EXCEPT !.triggered_rules = @ \o rules,
               !.invoked = Append(@, Invocation(check, st.sanitized_prompt, rules))]

\* mutant of StepInjection: the injection check ignores the source tag
StepInjectionAnySource(cfg, source, st) ==
    IF cfg.injection
    THEN Checked(st, "injection",
                 IF \E i \in 1..Len(st.sanitized_prompt) :
                        InjectionPatternMatches(st.sanitized_prompt[i])
                 THEN << Rule("Injection:", "System Prompt Override") >> ELSE << >>)
    ELSE st

\* Step 2: injection and leakage, input only
StepInjection(cfg, source, st) ==
    IF source = "input" /\ cfg.injection
    THEN Checked(st, "injection",
                 IF \E i \in 1..Len(st.sanitized_prompt) :
                        InjectionPatternMatches(st.sanitized_prompt[i])
                 THEN << Rule("Injection:", "System Prompt Override") >> ELSE << >>)
    ELSE st

\* mutant of StepTopics: the topic check is skipped once a blocking rule has triggered
StepTopicsShortCircuit(cfg, st) ==
    IF cfg.topics /\ \A i \in 1..Len(st.triggered_rules) : StartsWithPII(st.triggered_rules[i])
    THEN LET matches == TopicFindAll(st.sanitized_prompt)
         IN Checked(st, "topics",
                    IF matches # << >>
                    THEN << Rule("Topic:", JoinWith(",", Dedup(matches))) >> ELSE << >>)
    ELSE st

\* Step 3: keyword blocking; sorted(set(matches)) of the matches of one keyword
StepTopics(cfg, st) ==
    IF cfg.topics
    THEN LET matches == TopicFindAll(st.sanitized_prompt)
         IN Checked(st, "topics",
                    IF matches # << >>
                    THEN << Rule("Topic:", JoinWith(",", Dedup(matches))) >> ELSE << >>)
    ELSE st

\* Step 4: semantic blocking, input only
StepSemantic(cfg, source, st) ==
    IF source = "input" /\ cfg.semantic /\ cfg.broken = "semantic"
    THEN [st EXCEPT !.raised = TRUE,
                    !.invoked = Append(@, Invocation("semantic", st.sanitized_prompt, << >>))]
    ELSE IF source = "input" /\ cfg.semantic
    THEN LET max_index == ArgMax(st.sanitized_prompt)
             max_score == Similarity(st.sanitized_prompt, max_index)
             checked == Checked(st, "semantic",
                 IF SemanticBlocks(max_score, SemanticThreshold)
                 THEN << Rule("Semantic:", "Intent violation (matched '"
                              \o ForbiddenIntents[max_index] \o "', score "
                              \o FormatScore(max_score) \o ")") >>
                 ELSE << >>)
         IN [checked EXCEPT !.semantic_score = max_score]
    ELSE st

\* str(e) of an exception that is not a validation failure
InternalErrorText == "internal error"

\* self.external_guard.validate as the engine sees it: the adapter turns every
\* exception of the guard, a validation failure or not, into an error string
ExternalCall(cfg, text) ==
    IF cfg.broken = "external" THEN "Guardrails Validation Failed: " \o InternalErrorText
    ELSE ExternalValidate(text)

\* plugin.scan as the engine sees it: the plugin catches its own errors and
\* returns None
PluginCall(cfg, text) ==
    IF cfg.broken = "plugin" THEN "" ELSE LangKitScan(text)

\* Step 5: the external Guardrails AI hub, input only, in scan only
StepExternal(cfg, source, st) ==
    IF cfg.external /\ source = "input" /\ ~st.raised
    THEN LET ext_error == ExternalCall(cfg, st.sanitized_prompt)
         IN Checked(st, "external",
                    IF ext_error # "" THEN << Rule("External:", " " \o ext_error) >> ELSE << >>)
    ELSE st

\* for plugin in self.plugins: the LangKit plugin when it is loaded
StepPlugins(cfg, st) ==
    IF cfg.langkit /\ ~st.raised
    THEN LET err == PluginCall(cfg, st.sanitized_prompt)
         IN Checked(st, "plugin",
                    IF err # "" THEN << Rule("Plugin:", err) >> ELSE << >>)
    ELSE st

\* mutant of Scan: the blocking checks run on the original prompt, PII redaction last
ScanPiiLast(cfg, prompt, source) ==
    StepPii(cfg,
      StepPlugins(cfg,
        StepExternal(cfg, source,
          StepSemantic(cfg, source,
            StepTopics(cfg,
              StepInjection(cfg, source, ScanStart(prompt)))))))

\* GuardrailsEngine.scan
Scan(cfg, prompt, source) ==
    StepPlugins(cfg,
      StepExternal(cfg, source,
        StepSemantic(cfg, source,
          StepTopics(cfg,
            StepInjection(cfg, source,
              StepPii(cfg, ScanStart(prompt)))))))

\* GuardrailsEngine.scan_async: the same steps without the external hub
ScanAsync(cfg, prompt, source) ==
    StepPlugins(cfg,
      StepSemantic(cfg, source,
        StepTopics(cfg,
          StepInjection(cfg, source,
            StepPii(cfg, ScanStart(prompt))))))

\* mutant of PiiOnly: any() in place of all()
PiiOnlyAny(triggered) == \E i \in 1..Len(triggered) : StartsWithPII(triggered[i])

\* all(t.startswith("PII:") for t in triggered)
PiiOnly(triggered) == \A i \in 1..Len(triggered) : StartsWithPII(triggered[i])

\* mutant of PackageResult: shadow mode drops the reason of the suppressed block
PackageResultShadowNoReason(shadow_mode, result) ==
    LET triggered == result.triggered_rules
    IN IF Len(triggered) = 0 THEN Result(TRUE, result.sanitized_prompt, "", "allowed")
       ELSE IF PiiOnly(triggered)
            THEN Result(TRUE, result.sanitized_prompt, "PII Redacted", "redacted")
            ELSE IF shadow_mode
                 THEN Result(TRUE, result.sanitized_prompt, "", "shadow_block")
                 ELSE Result(FALSE, result.sanitized_prompt,
                             JoinWith(", ", MapSeq(triggered, RuleText)), "blocked")

\* mutant of PackageResult: shadow mode leaves the action of a block as blocked
PackageResultShadowKeepsBlocked(shadow_mode, result) ==
    LET triggered == result.triggered_rules
    IN IF Len(triggered) = 0 THEN Result(TRUE, result.sanitized_prompt, "", "allowed")
       ELSE IF PiiOnly(triggered)
            THEN Result(TRUE, result.sanitized_prompt, "PII Redacted", "redacted")
            ELSE Result(shadow_mode, result.sanitized_prompt,
                        JoinWith(", ", MapSeq(triggered, RuleText)), "blocked")

\* GuardrailsEngine._package_result
PackageResult(shadow_mode, result) ==
    LET triggered == result.triggered_rules
        reason == JoinWith(", ", MapSeq(triggered, RuleText))
    IN IF Len(triggered) = 0 THEN Result(TRUE, result.sanitized_prompt, "", "allowed")
       ELSE IF PiiOnly(triggered)
            THEN Result(TRUE, result.sanitized_prompt, "PII Redacted", "redacted")
            ELSE IF shadow_mode
                 THEN Result(TRUE, result.sanitized_prompt, reason, "shadow_block")
                 ELSE Result(FALSE, result.sanitized_prompt, reason, "blocked")

\* the source each entry point scans as
SourceOf(op) == IF op = "validate_output" THEN "output" ELSE "input"

\* the scan each entry point runs
ScanOf(cfg, op, text) ==
    IF op = "validate_async" THEN ScanAsync(cfg, text, SourceOf(op))
    ELSE Scan(cfg, text, SourceOf(op))

\* mutant of AuditEvent: every event is tagged as input
AuditEventInputSource(op, shadow_mode, final_result, text) ==
    [ source |-> "input", valid |-> final_result.valid, action |-> final_result.action,
      reason |-> final_result.reason, shadow_mode |-> shadow_mode, input_len |-> Len(text) ]

\* the event validate, validate_async and validate_output hand to the audit logger
AuditEvent(op, shadow_mode, final_result, text) ==
    [ source |-> SourceOf(op), valid |-> final_result.valid, action |-> final_result.action,
      reason |-> final_result.reason, shadow_mode |-> shadow_mode, input_len |-> Len(text) ]

\* the detector configurations of the profiles explored
EngConfigs ==
    { cfg \in [ pii : {"off", "regex", "presidio"}, pii_patterns : { << "EMAIL", "PHONE" >> },
                set_order : {"forward", "reverse"},
                injection : BOOLEAN, topics : BOOLEAN, semantic : BOOLEAN,
                external : BOOLEAN, langkit : BOOLEAN, audit_logger : {"null"},
                broken : {"none"} ] :
        cfg.pii = "presidio" \/ cfg.set_order = "forward" }

EngTokens == {TokHello, TokEmail, TokPhone, TokInject, TokTopic, TokIdiot}
EngTexts == SeqsUpTo(EngTokens, MaxTextLen)
EngOps == {"validate", "validate_async", "validate_output"}

\* validate / validate_async / validate_output: scan, package, audit, return
EngValidate(op, text) ==
    /\ eng_call.op = "none"
    /\ eng_cfg.audit_logger # "null" => Len(eng_audit) < MaxCalls
    /\ LET result_dict == ScanOf(eng_cfg, op, text)
           final_result == PackageResult(eng_shadow, result_dict)
       IN /\ eng_scan' = result_dict
          /\ IF result_dict.raised
             THEN \* the exception leaves validate: no verdict, no audit event
                  eng_result' = NoVerdict /\ eng_audit' = eng_audit
             ELSE /\ eng_result' = final_result
                  /\ eng_audit' =
                        IF eng_cfg.audit_logger = "null" THEN eng_audit
                        ELSE Append(eng_audit, AuditEvent(op, eng_shadow, final_result, text))
    /\ eng_call' = [op |-> op, text |-> text]
    /\ UNCHANGED << eng_cfg, eng_shadow >>

\* the caller has taken the verdict or the exception; the engine is ready for its
\* next call
EngReturn ==
    /\ eng_call.op # "none"
    /\ eng_call' = [op |-> "none", text |-> NoText]
    /\ eng_scan' = ScanStart(NoText)
    /\ eng_result' = NoVerdict
    /\ UNCHANGED << eng_cfg, eng_shadow, eng_audit >>

\* engine.shadow_mode = b, assigned between calls
SetShadowMode(b) ==
    /\ eng_call.op = "none"
    /\ eng_shadow # b
    /\ eng_shadow' = b
    /\ UNCHANGED << eng_cfg, eng_call, eng_scan, eng_result, eng_audit >>

-----------------------------------------------------------------------------
(* app.core.guardrails GuardrailsEngine                                     *)

\* GuardrailsEngine.pii_patterns of app.core.guardrails: the kinds, in dict order
CorePiiKinds == << "EMAIL", "PHONE", "SSN", "CREDIT_CARD" >>

\* GuardrailsEngine.redact_pii: re.sub of every pattern in turn
RECURSIVE CoreRedactPii(_, _)
CoreRedactPii(kinds, sanitized) ==
    IF kinds = << >> THEN sanitized
    ELSE CoreRedactPii(Tail(kinds), PiiSub(Head(kinds), sanitized))

\* GuardrailsEngine.check_injection
CoreCheckInjection(text) ==
    \E k \in 1..Len(InjectionKeywords) : KeywordInText(InjectionKeywords[k], text)

\* GuardrailsEngine.validate of app.core.guardrails
CoreValidate(text) ==
    IF CoreCheckInjection(text)
    THEN Result(FALSE, text, "Prompt Injection Detected", "blocked")
    ELSE Result(TRUE, CoreRedactPii(CorePiiKinds, text), "Passed", "allowed")

-----------------------------------------------------------------------------
(* Concurrent calls of one sentinel engine, interleaved check by check      *)

Threads == {"t1", "t2"}

ThCallIdle ==
    [ pc |-> "idle", op |-> "none", text |-> NoText, st |-> ScanStart(NoText),
      result |-> NoVerdict ]

\* mutant of ThLocals: triggered and sanitized_prompt kept in one place for all
\* the calls in progress
ThLocalsShared(calls, t) ==
    LET busy == { u \in Threads : calls[u].pc \notin {"idle", "done"} }
    IN IF busy = {} THEN calls[t].st
       ELSE calls[CHOOSE u \in busy : \A v \in busy : u = v \/ u = "t1"].st

\* the locals of scan / scan_async (triggered, sanitized_prompt, semantic_score):
\* each call has its own
ThLocals(calls, t) == calls[t].st

\* the step that follows pc in scan (validate, validate_output) or scan_async
ThAfter(cfg, op, pc) ==
    CASE pc = "pii" -> "injection"
      [] pc = "injection" -> "topics"
      [] pc = "topics" -> "semantic"
      [] pc = "semantic" -> IF op = "validate_async" THEN "plugin_check" ELSE "external"
      [] pc = "external" -> "plugin_check"
      [] pc = "plugin_check" ->
            IF ~cfg.langkit THEN "package"
            ELSE IF plugin_model = 0 THEN "plugin_load" ELSE "plugin"
      [] pc = "plugin_load" -> "plugin"
      [] pc = "plugin" -> "package"
      [] pc = "package" -> "done"

\* what the step at pc does to the locals of the call
ThRun(cfg, source, pc, st) ==
    CASE pc = "pii" -> StepPii(cfg, st)
      [] pc = "injection" -> StepInjection(cfg, source, st)
      [] pc = "topics" -> StepTopics(cfg, st)
      [] pc = "semantic" -> StepSemantic(cfg, source, st)
      [] pc = "external" -> StepExternal(cfg, source, st)
      [] pc = "plugin" -> StepPlugins(cfg, st)
      [] OTHER -> st

\* a caller enters validate, validate_async or validate_output
ThCall(t, op, text) ==
    /\ th_calls[t].pc = "idle"
    /\ th_calls' = [th_calls EXCEPT ![t] =
                      [ pc |-> "pii", op |-> op, text |-> text, st |-> ScanStart(text),
                        result |-> NoVerdict ]]
    /\ UNCHANGED << plugin_model, eng_cfg, eng_shadow >>

\* the call of caller t runs its next step: a check of the scan, the lazy creation
\* of the LangKit model, or _package_result
ThStep(t) ==
    LET c == th_calls[t]
    IN /\ c.pc \notin {"idle", "done"}
       /\ th_calls' = [th_calls EXCEPT ![t] =
             [c EXCEPT !.pc = ThAfter(eng_cfg, c.op, c.pc),
                       !.st = ThRun(eng_cfg, SourceOf(c.op), c.pc, ThLocals(th_calls, t)),
                       !.result = IF c.pc = "package"
                                  THEN PackageResult(eng_shadow, ThLocals(th_calls, t))
                                  ELSE @]]
       /\ plugin_model' = IF c.pc = "plugin_load" THEN plugin_model + 1 ELSE plugin_model
       /\ UNCHANGED << eng_cfg, eng_shadow >>

\* the caller takes its verdict
ThReturn(t) ==
    /\ th_calls[t].pc = "done"
    /\ th_calls' = [th_calls EXCEPT ![t] = ThCallIdle]
    /\ UNCHANGED << plugin_model, eng_cfg, eng_shadow >>

\* a profile with every detector enabled
ConcConfigs ==
    { [ pii |-> pii, pii_patterns |-> << "EMAIL", "PHONE" >>, set_order |-> "forward",
        injection |-> TRUE, topics |-> TRUE, semantic |-> TRUE,
        external |-> TRUE, langkit |-> TRUE, audit_logger |-> "null",
        broken |-> "none" ] : pii \in {"regex", "presidio"} }

ConcTexts == { << TokHello >>, << TokEmail >>, << TokEmail, TokIdiot >>, << TokInject, TokTopic >> }

-----------------------------------------------------------------------------
(* StreamSanitizer.  A stream is a sequence of pieces of text; chunk        *)
(* boundaries fall between pieces, and a string is the concatenation of     *)
(* its pieces.                                                              *)

PcEmailHead == "test@example"
PcDot == "."
PcCom == "com"
PcSpace == " "

StreamPieces == {PcEmailHead, PcDot, PcCom, PcSpace, TokTopic, TokInject}

\* [.?!] of SENTENCE_END
IsTerminator(piece) == piece \in {".", "?", "!"}

\* \s of SENTENCE_END
IsSpace(piece) == piece \in {" ", "\n", "\t"}

\* the concatenation of a sequence of pieces, as one string
Concat(pieces) == JoinWith("", pieces)

RECURSIVE Flatten(_)
\* the concatenation of a sequence of sequences
Flatten(seqs) == IF seqs = << >> THEN << >> ELSE Head(seqs) \o Flatten(Tail(seqs))

RECURSIVE Tokenize(_)
\* the text as the engine's detectors see it: "test@example" "." "com" in a row are
\* one match of the EMAIL pattern, every other piece is matched on its own
Tokenize(pieces) ==
    IF pieces = << >> THEN << >>
    ELSE IF Len(pieces) >= 3 /\ SubSeq(pieces, 1, 3) = << PcEmailHead, PcDot, PcCom >>
         THEN << TokEmail >> \o Tokenize(SubSeq(pieces, 4, Len(pieces)))
         ELSE << Head(pieces) >> \o Tokenize(Tail(pieces))

\* self.engine.validate_output(sentence)
StreamValidateOutput(cfg, shadow_mode, sentence) ==
    PackageResult(shadow_mode, Scan(cfg, Tokenize(sentence), "output"))

\* SENTENCE_END.match(self.buffer): the length of group(1), the shortest prefix
\* that ends in a terminator followed by whitespace or by the end of the buffer;
\* 0 when there is no match
SentenceEnd(buffer) ==
    LET ends == { i \in 1..Len(buffer) :
                    /\ IsTerminator(buffer[i])
                    /\ i = Len(buffer) \/ IsSpace(buffer[i + 1]) }
    IN IF ends = {} THEN 0 ELSE CHOOSE i \in ends : \A j \in ends : i <= j

\* the length of group(2): all the whitespace that follows the sentence
SeparatorLen(buffer, i) ==
    LET runs == { n \in 0..(Len(buffer) - i) : \A k \in 1..n : IsSpace(buffer[i + k]) }
    IN CHOOSE n \in runs : \A m \in runs : m <= n

\* mutant of Emission: a blocked sentence is yielded like any other
EmissionNeverBlocks(result, separator) == result.sanitized_text \o separator

\* mutant of Emission: the separator is not yielded
EmissionNoSeparator(result, separator) ==
    IF result.valid \/ result.action = "redacted"
    THEN result.sanitized_text
    ELSE << "[BLOCKED: " \o result.reason \o "]" >>

\* the string yielded for a sentence: its pieces
Emission(result, separator) ==
    IF result.valid \/ result.action = "redacted"
    THEN result.sanitized_text \o separator
    ELSE << "[BLOCKED: " \o result.reason \o "]" >> \o separator

\* what the sanitizer remembers of one engine call
Validated(sentence, separator, result) ==
    [ sentence |-> sentence, separator |-> separator, result |-> result,
      emitted |-> Emission(result, separator) ]

\* mutant of StreamLoop: `if match` in place of `while True`
StreamLoopOnce(cfg, shadow_mode, buffer, validated) ==
    LET i == SentenceEnd(buffer)
    IN IF i = 0 THEN [buffer |-> buffer, validated |-> validated]
       ELSE LET sentence == SubSeq(buffer, 1, i)
                separator == SubSeq(buffer, i + 1, i + SeparatorLen(buffer, i))
                full_match_len == Len(sentence) + Len(separator)
                result == StreamValidateOutput(cfg, shadow_mode, sentence)
            IN [ buffer |-> SubSeq(buffer, full_match_len + 1, Len(buffer)),
                 validated |-> Append(validated, Validated(sentence, separator, result)) ]

RECURSIVE StreamLoop(_, _, _, _)
\* the while loop of process: match, cut the buffer, validate, yield
StreamLoop(cfg, shadow_mode, buffer, validated) ==
    LET i == SentenceEnd(buffer)
    IN IF i = 0 THEN [buffer |-> buffer, validated |-> validated]
       ELSE LET sentence == SubSeq(buffer, 1, i)
                separator == SubSeq(buffer, i + 1, i + SeparatorLen(buffer, i))
                full_match_len == Len(sentence) + Len(separator)
                result == StreamValidateOutput(cfg, shadow_mode, sentence)
            IN StreamLoop(cfg, shadow_mode,
                          SubSeq(buffer, full_match_len + 1, Len(buffer)),
                          Append(validated, Validated(sentence, separator, result)))

\* mutant of StreamFlushCalls: the rest of the buffer is validated as an input
StreamFlushCallsAsInput(cfg, shadow_mode, buffer) ==
    IF buffer # << >>
    THEN << Validated(buffer, << >>,
                      PackageResult(shadow_mode, Scan(cfg, Tokenize(buffer), "input"))) >>
    ELSE << >>

\* the engine calls flush makes for what is left in the buffer
StreamFlushCalls(cfg, shadow_mode, buffer) ==
    IF buffer # << >>
    THEN << Validated(buffer, << >>, StreamValidateOutput(cfg, shadow_mode, buffer)) >>
    ELSE << >>

ValidatedEmitted(v) == v.emitted

\* StreamSanitizer.process(chunk), consumed to its end
StreamProcess(chunk) ==
    /\ ~str_flushed
    /\ LET r == StreamLoop(eng_cfg, eng_shadow, str_buffer \o chunk, << >>)
       IN /\ str_buffer' = r.buffer
          /\ str_validated' = str_validated \o r.validated
          /\ str_out' = str_out \o MapSeq(r.validated, ValidatedEmitted)
    /\ str_chunks' = Append(str_chunks, chunk)
    /\ UNCHANGED << str_flushed, eng_cfg, eng_shadow >>

\* StreamSanitizer.flush(), consumed to its end, at the end of the stream
StreamFlush ==
    /\ ~str_flushed
    /\ LET calls == StreamFlushCalls(eng_cfg, eng_shadow, str_buffer)
       IN /\ str_validated' = str_validated \o calls
          /\ str_out' = str_out \o MapSeq(calls, ValidatedEmitted)
    /\ str_buffer' = << >>
    /\ str_flushed' = TRUE
    /\ UNCHANGED << str_chunks, eng_cfg, eng_shadow >>

\* the profile of the sanitizer's engine: PII redaction and topic blocking
StreamConfigs ==
    { [ pii |-> "regex", pii_patterns |-> << "EMAIL", "PHONE" >>, set_order |-> "forward",
        injection |-> TRUE, topics |-> TRUE, semantic |-> FALSE,
        external |-> FALSE, langkit |-> FALSE, audit_logger |-> "null",
        broken |-> "none" ] }

-----------------------------------------------------------------------------
(* PII redaction applied to its own output                                  *)

\* the PII detectors: PIIGuardrail.validate with its default patterns, and the PII
\* step of scan with the compiled patterns of a profile or with Presidio
PiiDetectors ==
    { [kind |-> "guardrail", pii_patterns |-> PiiDefaultKinds] }
    \cup { [kind |-> "regex", pii_patterns |-> p] :
              p \in { << "EMAIL" >>, << "EMAIL", "PHONE" >>, << "PHONE", "EMAIL" >> } }
    \cup { [kind |-> "presidio", pii_patterns |-> << >>] }

PiiTokens == { TokHello, TokEmail, TokPhone, TokSSN, TokEmailDigits }
PiiInputs == [detector : PiiDetectors, text : SeqsUpTo(PiiTokens, MaxTextLen)]

\* one pass of the detector: the sanitized text and whether PII was reported
PiiPass(detector, text) ==
    IF detector.kind = "guardrail"
    THEN LET r == PiiValidate(text)
         IN [sanitized_text |-> r.sanitized_text, found |-> r.action = "redacted"]
    ELSE LET r == IF detector.kind = "presidio"
                  THEN PresidioScanAndRedact("forward", text)
                  ELSE EngPiiLoop(detector.pii_patterns, 1, text, << >>)
         IN [sanitized_text |-> r.text, found |-> r.pii_types # << >>]

\* the detector applied to a text and then to its own sanitized output
PiiTwiceCall ==
    /\ fn_ret = NoRet
    /\ LET first == PiiPass(fn_arg.detector, fn_arg.text)
       IN fn_ret' = Returned("pii", [first |-> first,
                                     second |-> PiiPass(fn_arg.detector, first.sanitized_text)])
    /\ UNCHANGED fn_arg

-----------------------------------------------------------------------------
(* GuardrailsFactory (sentinel/factory.py)                                  *)

\* the detectors a profile can enable
ProfileDetectors == { "pii", "injection", "topics", "semantic" }

\* a profile file: what happens when it is opened, parsed and handed to the engine
\* constructor, and the detectors its config enables
FileStates == { "ok", "unreadable", "invalid_yaml", "bad_config" }
ProfileFiles == [state : FileStates, detectors : SUBSET ProfileDetectors]

\* where load finds the profile: a direct .yaml path, a packaged profile, one of
\* the candidate directories under the working directory, or nowhere
Profiles == [where : { "path", "package", "cwd", "nowhere" }, file : ProfileFiles]

\* the config load_from_file falls back to
FallbackDetectors == { "injection" }

EngineOf(detectors) == [kind |-> "engine", detectors |-> detectors]
Raised(error) == [kind |-> "raised", error |-> error]

\* GuardrailsFactory.load_from_file: every exception of open, yaml.safe_load and
\* GuardrailsEngine(config) is caught and answered with the fallback engine
LoadFromFile(file) ==
    IF file.state = "ok" THEN EngineOf(file.detectors) ELSE EngineOf(FallbackDetectors)

\* GuardrailsFactory.load
Load(profile) ==
    IF profile.where \in { "path", "package", "cwd" }
    THEN LoadFromFile(profile.file)
    ELSE Raised("FileNotFoundError")

\* a call GuardrailsFactory.load(profile)
LoadCall ==
    /\ fn_ret = NoRet
    /\ fn_ret' = Returned("load", Load(fn_arg))
    /\ UNCHANGED fn_arg

-----------------------------------------------------------------------------
(* RateLimitMiddleware (app/core/rate_limit.py)                             *)

\* the client addresses that send requests
Clients == { "10.0.0.1", "10.0.0.2" }

\* request.url.path of the requests sent
Paths == { "/v1/chat/completions", "/health" }

\* request.url.path.startswith("/v1/")
IsApiPath(path) == path = "/v1/chat/completions"

\* RateLimitMiddleware(app, max_requests=2, window_seconds=2)
max_requests == 2
window_seconds == 2

\* a dispatch call that is not running
RlCallIdle == [pc |-> "idle", client_ip |-> "-", path |-> "-", current_time |-> 0]

\* the positions of a dispatch call between "with self.lock:" and the end of the block
InLock == { "clean", "check", "record" }

\* mutant of LockFree: the lock never makes a caller wait
LockFreeAlways(calls) == TRUE

\* self.lock can be acquired: no dispatch call is inside the block
LockFree(calls) == \A t \in Threads : calls[t].pc \notin InLock

\* mutant of CleanUp: old timestamps are never dropped
CleanUpNever(timestamps, current_time) == timestamps

\* [t for t in self.requests[client_ip] if current_time - t < self.window_seconds]
CleanUp(timestamps, current_time) ==
    LET Recent(t) == current_time - t < window_seconds
    IN Filter(timestamps, Recent)

\* what the block decided for one request, kept in lock order
Decision(call, admitted) ==
    [client_ip |-> call.client_ip, current_time |-> call.current_time, admitted |-> admitted]

\* dispatch is entered; a path outside /v1/ goes straight to call_next
RlDispatch(t, client_ip, path) ==
    /\ rl_calls[t].pc = "idle"
    /\ IsApiPath(path) => Len(rl_log) + Cardinality({ u \in Threads : rl_calls[u].pc \in InLock \cup {"acquire"} }) < MaxDispatches
    /\ rl_calls' = [rl_calls EXCEPT ![t] =
                       [pc |-> IF IsApiPath(path) THEN "acquire" ELSE "call_next",
                        client_ip |-> client_ip, path |-> path, current_time |-> 0]]
    /\ UNCHANGED << rl_requests, rl_now, rl_log >>

\* "with self.lock:" is entered and time.time() is read
RlAcquire(t) ==
    /\ rl_calls[t].pc = "acquire"
    /\ LockFree(rl_calls)
    /\ rl_calls' = [rl_calls EXCEPT ![t].pc = "clean", ![t].current_time = rl_now]
    /\ UNCHANGED << rl_requests, rl_now, rl_log >>

\* the old timestamps of the client are dropped
RlClean(t) ==
    /\ rl_calls[t].pc = "clean"
    /\ rl_requests' = [rl_requests EXCEPT ![rl_calls[t].client_ip] =
                           CleanUp(@, rl_calls[t].current_time)]
    /\ rl_calls' = [rl_calls EXCEPT ![t].pc = "check"]
    /\ UNCHANGED << rl_now, rl_log >>

\* "if len(self.requests[client_ip]) >= self.max_requests": 429, the lock is released
RlCheck(t) ==
    /\ rl_calls[t].pc = "check"
    /\ IF Len(rl_requests[rl_calls[t].client_ip]) >= max_requests
       THEN /\ rl_calls' = [rl_calls EXCEPT ![t].pc = "rejected"]
            /\ rl_log' = Append(rl_log, Decision(rl_calls[t], FALSE))
       ELSE /\ rl_calls' = [rl_calls EXCEPT ![t].pc = "record"]
            /\ rl_log' = rl_log
    /\ UNCHANGED << rl_requests, rl_now >>

\* the request is recorded, the lock is released and call_next is awaited
RlRecord(t) ==
    /\ rl_calls[t].pc = "record"
    /\ rl_requests' = [rl_requests EXCEPT ![rl_calls[t].client_ip] =
                           Append(@, rl_calls[t].current_time)]
    /\ rl_calls' = [rl_calls EXCEPT ![t].pc = "call_next"]
    /\ rl_log' = Append(rl_log, Decision(rl_calls[t], TRUE))
    /\ UNCHANGED rl_now

\* dispatch returns: the response of call_next, or the 429 response
RlReturn(t) ==
    /\ rl_calls[t].pc \in { "call_next", "rejected" }
    /\ rl_calls' = [rl_calls EXCEPT ![t] = RlCallIdle]
    /\ UNCHANGED << rl_requests, rl_now, rl_log >>

\* a second passes on the clock time.time() reads
RlTick ==
    /\ rl_now < MaxTime
    /\ rl_now' = rl_now + 1
    /\ UNCHANGED << rl_requests, rl_calls, rl_log >>

-----------------------------------------------------------------------------
(* Idle values of the components a specification does not exercise          *)

GwIdle ==
    /\ gw_pc = "idle"
    /\ gw_request = NoRequest
    /\ gw_input_text = NoText
    /\ gw_verdict = NoVerdict
    /\ gw_payload = NoRequest
    /\ gw_upstream = NoUpstream
    /\ gw_reply = NoReply
    /\ gw_response = NoResponse
    /\ gw_audit = << >>
    /\ gw_trace = << >>

EngIdle ==
    /\ eng_call = [op |-> "none", text |-> NoText]
    /\ eng_scan = ScanStart(NoText)
    /\ eng_result = NoVerdict
    /\ eng_audit = << >>

ThIdle ==
    /\ th_calls = [t \in Threads |-> ThCallIdle]
    /\ plugin_model = 0

StrIdle ==
    /\ str_chunks = << >>
    /\ str_buffer = << >>
    /\ str_out = << >>
    /\ str_validated = << >>
    /\ str_flushed = FALSE

\* no function was applied yet
FnIdle == fn_arg = NoArg /\ fn_ret = NoRet

\* RateLimitMiddleware after __init__, no dispatch in progress
RlIdle ==
    /\ rl_requests = [c \in Clients |-> << >>]
    /\ rl_now = 0
    /\ rl_calls = [t \in Threads |-> RlCallIdle]
    /\ rl_log = << >>


-----------------------------------------------------------------------------
(* Specification of the guardrails_lib engine                               *)

NextLib ==
    \/ \E g \in LibKinds : LibAddGuardrail(g) /\ UNCHANGED << gw_vars, eng_vars, th_vars, str_vars, fn_vars, rl_vars >>
    \/ \E t \in LibTexts : LibValidate(t) /\ UNCHANGED << gw_vars, eng_vars, th_vars, str_vars, fn_vars, rl_vars >>

InitSpecLib ==
    /\ InitLib
    /\ use_mock_llm = FALSE /\ GwIdle /\ ThIdle /\ StrIdle /\ FnIdle /\ RlIdle
    /\ eng_cfg = "-" /\ eng_shadow = FALSE /\ EngIdle

SpecLib == InitSpecLib /\ [][NextLib]_vars

\* C6: guardrails_lib GuardrailsEngine.validate calls its guardrails in list order,
\* gives each the sanitized_text returned by the previous one (the original text to
\* the first), returns the result of the first guardrail with valid=false unchanged
\* without calling any later guardrail, and with no blocking guardrail returns the
\* last guardrail's sanitized_text.
C6_LibPipeline ==
    lib_text # NoCall =>
        LET gs == lib_guardrails
            t == lib_text
            n == Len(lib_calls)
            ret(i) == GuardrailValidate(gs[i], lib_calls[i].text)
        IN /\ n <= Len(gs)
           /\ \A i \in 1..n : lib_calls[i].kind = gs[i]
           /\ n >= 1 => lib_calls[1].text = t
           /\ \A i \in 1..(n - 1) :
                 ret(i).valid /\ lib_calls[i + 1].text = ret(i).sanitized_text
           /\ IF n >= 1 /\ ~ret(n).valid
              THEN lib_result = ret(n)
              ELSE /\ n = Len(gs)
                   /\ lib_result.valid
                   /\ lib_result.sanitized_text = (IF n = 0 THEN t ELSE ret(n).sanitized_text)

\* C6 witness: a sanitizing guardrail rewrote the text, the next guardrail got the
\* rewritten text and blocked, and a later guardrail was never called.
C6_Witness ==
    /\ lib_text # NoCall
    /\ Len(lib_calls) >= 2
    /\ Len(lib_calls) < Len(lib_guardrails)
    /\ lib_calls[2].text # lib_text
    /\ ~lib_result.valid

\* C11: for every verdict returned by an engine's validate, action allowed or none
\* implies that sanitized_text equals the input text; checked for the
\* guardrails_lib engine on its last call and for the app.core.guardrails engine on
\* the same text.
C11_AllowedMeansUnchanged ==
    lib_text # NoCall =>
        /\ lib_result.action \in {"allowed", "none"} => lib_result.sanitized_text = lib_text
        /\ CoreValidate(lib_text).action \in {"allowed", "none"} =>
              CoreValidate(lib_text).sanitized_text = lib_text

-----------------------------------------------------------------------------
(* Specification of the gateway handler                                     *)

NextGateway ==
    \/ \E request \in GwRequests : ChatCompletions(request) /\ UNCHANGED << lib_vars, eng_vars, th_vars, str_vars, fn_vars, rl_vars >>
    \/ \E reply \in UpstreamReplies : UpstreamResponds(reply) /\ UNCHANGED << lib_vars, eng_vars, th_vars, str_vars, fn_vars, rl_vars >>
    \/ UpstreamFails /\ UNCHANGED << lib_vars, eng_vars, th_vars, str_vars, fn_vars, rl_vars >>
    \/ RequestDone /\ UNCHANGED << lib_vars, eng_vars, th_vars, str_vars, fn_vars, rl_vars >>

InitSpecGateway ==
    /\ use_mock_llm \in BOOLEAN
    /\ GwIdle /\ ThIdle /\ StrIdle /\ FnIdle /\ RlIdle
    /\ lib_guardrails = GatewayGuardrails /\ lib_text = NoCall /\ lib_calls = << >>
    /\ lib_result = NoResult
    /\ eng_cfg = "-" /\ eng_shadow = FALSE /\ EngIdle

SpecGateway == InitSpecGateway /\ [][NextGateway]_vars

DispatchSteps == { "route", "adapt", "post", "mock" }

\* C1: a request whose input verdict has valid=false is answered 400 with code
\* "security_policy_violation" and is never routed, adapted, POSTed or mocked; and
\* in every request the validation step precedes every dispatch step.
C1_BlockedNeverDispatched ==
    /\ (gw_pc # "idle" /\ ~gw_verdict.valid) =>
          /\ gw_pc = "done"
          /\ gw_response.status_code = 400
          /\ gw_response.code = "security_policy_violation"
          /\ \A i \in 1..Len(gw_trace) : gw_trace[i] \notin DispatchSteps
          /\ gw_upstream = NoUpstream
          /\ gw_reply = NoReply
    /\ \A j \in 1..Len(gw_trace) :
          gw_trace[j] \in DispatchSteps => \E i \in 1..(j - 1) : gw_trace[i] = "validate"

\* C1 witness: a request with an injection in its last user message was answered 400.
C1_Witness ==
    /\ gw_pc = "done"
    /\ ~gw_verdict.valid
    /\ gw_input_text = << TokInject >>
    /\ gw_response.status_code = 400

\* what C2 says the client sees for the upstream's assistant content
ValidatedOutput(content) ==
    LET v_out == LibEngineValidate(GatewayGuardrails, content).result
    IN IF ~v_out.valid THEN << "[BLOCKED: " \o v_out.reason \o "]" >>
       ELSE v_out.sanitized_text

\* C2: on every successful upstream response the assistant content is validated
\* before the response is returned: the client sees the redacted content (no e-mail
\* address of the upstream content reaches it), or "[BLOCKED: <reason>]".
C2_OutputValidated ==
    (gw_pc = "done" /\ gw_reply.kind = "response" /\ gw_response.kind = "completion") =>
        /\ gw_response.content = ValidatedOutput(gw_reply.content)
        /\ ~Contains(gw_response.content, TokEmail)

\* C3: for every request that passed input validation and was sent upstream, the
\* message whose content was extracted as input_text (last user message, else the
\* last message) carries the verdict's sanitized_text in the payload.
C3_ScannedMessageSanitized ==
    (gw_pc \in { "awaiting", "done" } /\ gw_upstream # NoUpstream
        /\ ScannedIndex(gw_request.messages) # 0) =>
        gw_payload.messages[ScannedIndex(gw_request.messages)].content
            = gw_verdict.sanitized_text

-----------------------------------------------------------------------------
(* Specification of the sentinel engine                                     *)

NextEngine ==
    \/ \E op \in EngOps, text \in EngTexts :
          EngValidate(op, text) /\ UNCHANGED << lib_vars, gw_vars, th_vars, str_vars, fn_vars, rl_vars >>
    \/ EngReturn /\ UNCHANGED << lib_vars, gw_vars, th_vars, str_vars, fn_vars, rl_vars >>
    \/ \E b \in BOOLEAN : SetShadowMode(b) /\ UNCHANGED << lib_vars, gw_vars, th_vars, str_vars, fn_vars, rl_vars >>

InitSpecEngine ==
    /\ eng_cfg \in EngConfigs
    /\ eng_shadow \in BOOLEAN
    /\ EngIdle
    /\ use_mock_llm = FALSE /\ GwIdle /\ ThIdle /\ StrIdle /\ FnIdle /\ RlIdle
    /\ lib_guardrails = << >> /\ lib_text = NoCall /\ lib_calls = << >>
    /\ lib_result = NoResult

SpecEngine == InitSpecEngine /\ [][NextEngine]_vars

\* the engine has returned a verdict for eng_call
EngReturned == eng_call.op # "none"

\* the calls of blocking checks (every check but PII redaction) that added a rule
BlockingTriggers == { i \in 1..Len(eng_scan.invoked) :
                        /\ eng_scan.invoked[i].check # "pii"
                        /\ eng_scan.invoked[i].rules # << >> }

\* the PII step found and redacted something
PiiRedacted == \E i \in 1..Len(eng_scan.invoked) :
                  /\ eng_scan.invoked[i].check = "pii"
                  /\ eng_scan.invoked[i].rules # << >>

\* the rules of all calls, in call order
RECURSIVE RulesOfCalls(_)
RulesOfCalls(invoked) ==
    IF invoked = << >> THEN << >>
    ELSE invoked[1].rules \o RulesOfCalls(Tail(invoked))

\* the checks a configuration enables for an entry point, in pipeline order
ChecksEnabled(cfg, op) ==
    LET Enabled(check) ==
          \/ check = "pii" /\ cfg.pii # "off"
          \/ check = "injection" /\ cfg.injection /\ op # "validate_output"
          \/ check = "topics" /\ cfg.topics
          \/ check = "semantic" /\ cfg.semantic /\ op # "validate_output"
          \/ check = "external" /\ cfg.external /\ op = "validate"
          \/ check = "plugin" /\ cfg.langkit
    IN Filter(<< "pii", "injection", "topics", "semantic", "external", "plugin" >>, Enabled)

InvocationCheck(inv) == inv.check

TwinVerdict == PackageResult(~eng_shadow, ScanOf(eng_cfg, eng_call.op, eng_call.text))

\* C7: for every text and profile, an engine in shadow mode returns valid=true,
\* and its reason equals the reason an otherwise identical engine with shadow mode
\* off returns for the same text.
C7_ShadowEquivalence ==
    EngReturned =>
        /\ eng_shadow => eng_result.valid
        /\ ~eng_shadow => TwinVerdict.valid
        /\ eng_result.reason = TwinVerdict.reason

\* C7 witness: a shadow-mode engine returned a verdict for a text that the
\* identical engine without shadow mode blocks.
C7_Witness ==
    /\ EngReturned /\ eng_shadow /\ eng_call.op = "validate"
    /\ ~TwinVerdict.valid
    /\ eng_result.reason # ""

\* C8: with shadow mode on, whenever a blocking check triggers the verdict has
\* valid=true, action=shadow_block, a non-empty reason, and sanitized_text equal to
\* the text passed into the blocking check; shadow_block is never returned with
\* shadow mode off or when no blocking check triggered.
C8_ShadowBlock ==
    EngReturned =>
        /\ (eng_shadow /\ BlockingTriggers # {}) =>
              /\ eng_result.valid
              /\ eng_result.action = "shadow_block"
              /\ eng_result.reason # ""
              /\ \A i \in BlockingTriggers :
                    eng_scan.invoked[i].text = eng_result.sanitized_text
        /\ eng_result.action = "shadow_block" => (eng_shadow /\ BlockingTriggers # {})

\* C8 witness: shadow mode on, PII was redacted and a blocking check triggered on
\* the redacted text.
C8_Witness ==
    /\ EngReturned /\ eng_shadow
    /\ PiiRedacted /\ BlockingTriggers # {}
    /\ eng_result.sanitized_text # eng_call.text

\* C9 (as stated): with shadow mode off, whenever a blocking check triggers the
\* verdict has valid=false, action=blocked, and reason equal to the reason of the
\* detector that blocked, with no entry of a detector that did not block.
C9_ReasonOfBlocker ==
    (EngReturned /\ ~eng_shadow /\ BlockingTriggers # {}) =>
        /\ ~eng_result.valid
        /\ eng_result.action = "blocked"
        /\ \E i \in BlockingTriggers :
              eng_result.reason = JoinWith(", ", MapSeq(eng_scan.invoked[i].rules, RuleText))

\* C9 (amended): with shadow mode off, whenever a blocking check triggers the
\* verdict has valid=false, action=blocked, and reason equal to the ", "-joined
\* rules of every check that triggered, in pipeline order: the PII tags of the
\* redactions made in the same scan and the rules of all blocking checks.
C9_ReasonOfAllTriggered ==
    (EngReturned /\ ~eng_shadow /\ BlockingTriggers # {}) =>
        /\ ~eng_result.valid
        /\ eng_result.action = "blocked"
        /\ eng_result.reason =
              JoinWith(", ", MapSeq(RulesOfCalls(eng_scan.invoked), RuleText))

\* C9 witness: shadow mode off, PII was redacted and a blocking check triggered,
\* so the reason carries a PII tag next to the blocker's rule.
C9_Witness ==
    /\ EngReturned /\ ~eng_shadow
    /\ PiiRedacted /\ BlockingTriggers # {}
    /\ eng_result.action = "blocked"

\* a token the enabled PII detection matches
IsPiiToken(cfg, tok) ==
    IF cfg.pii = "presidio" THEN PresidioEntity(tok) # ""
    ELSE \E k \in 1..Len(cfg.pii_patterns) : EngPiiMatches(cfg.pii_patterns[k], tok)

\* C10: when no blocking check triggers but PII redaction changed the text,
\* the verdict is valid=true, action=redacted, reason="PII Redacted", and
\* sanitized_text is the fully redacted text: it differs from the input, keeps
\* everything else and contains none of the matched PII; with shadow mode on or off.
C10_PiiRedacted ==
    (EngReturned /\ BlockingTriggers = {} /\ eng_scan.sanitized_prompt # eng_call.text) =>
        /\ eng_result.valid
        /\ eng_result.action = "redacted"
        /\ eng_result.reason = "PII Redacted"
        /\ eng_result.sanitized_text # eng_call.text
        /\ Len(eng_result.sanitized_text) = Len(eng_call.text)
        /\ \A i \in 1..Len(eng_call.text) :
              /\ ~IsPiiToken(eng_cfg, eng_result.sanitized_text[i])
              /\ ~IsPiiToken(eng_cfg, eng_call.text[i]) =>
                    eng_result.sanitized_text[i] = eng_call.text[i]

\* C10 witness: shadow mode on, a text with two PII matches was redacted and no
\* blocking check triggered.
C10_Witness ==
    /\ EngReturned /\ eng_shadow
    /\ BlockingTriggers = {}
    /\ eng_result.action = "redacted"
    /\ Cardinality({ i \in 1..Len(eng_call.text) : IsPiiToken(eng_cfg, eng_call.text[i]) }) >= 2

\* the position of the PII step among the calls of the scan, 0 when it did not run
PiiPosition == IF \E i \in 1..Len(eng_scan.invoked) : eng_scan.invoked[i].check = "pii"
               THEN CHOOSE i \in 1..Len(eng_scan.invoked) : eng_scan.invoked[i].check = "pii"
               ELSE 0

\* C12 (as stated): blocking checks run before the transforming PII stage, so
\* whenever validate returns action=blocked the verdict's sanitized_text equals the
\* original input.
C12_BlockedKeepsInput ==
    (EngReturned /\ eng_result.action = "blocked") =>
        /\ eng_result.sanitized_text = eng_call.text
        /\ \A i \in BlockingTriggers : PiiPosition = 0 \/ i < PiiPosition

\* C12 (amended): the PII stage runs first and the blocking checks run on its
\* output, so whenever validate returns action=blocked the verdict's sanitized_text
\* is the PII-redacted text the blocking checks were given; it equals the original
\* input exactly when the PII stage redacted nothing.
C12_BlockedCarriesRedacted ==
    (EngReturned /\ eng_result.action = "blocked") =>
        /\ PiiPosition <= 1
        /\ \A i \in BlockingTriggers : eng_scan.invoked[i].text = eng_result.sanitized_text
        /\ PiiRedacted <=> eng_result.sanitized_text # eng_call.text
        /\ \A i \in 1..Len(eng_result.sanitized_text) :
              ~IsPiiToken(eng_cfg, eng_call.text[i]) =>
                  eng_result.sanitized_text[i] = eng_call.text[i]

\* C12 witness: a blocked verdict of validate whose sanitized_text is not the
\* input, because the PII stage rewrote it before the blocking check ran.
C12_Witness ==
    /\ EngReturned /\ eng_call.op = "validate"
    /\ eng_result.action = "blocked"
    /\ eng_result.sanitized_text # eng_call.text
    /\ PiiPosition = 1

\* the prefixes of the rules of the checks that only make sense on input
InputOnlyPrefixes == {"Injection:", "Semantic:"}

\* C13: with source=output the injection and semantic checks are never evaluated,
\* so validate_output never returns a verdict whose reason has an "Injection:" or
\* "Semantic:" entry, while the enabled PII, topic and plugin checks still run.
C13_InputOnlyChecksSkipped ==
    (EngReturned /\ eng_call.op = "validate_output") =>
        /\ \A i \in 1..Len(eng_scan.invoked) :
              eng_scan.invoked[i].check \notin {"injection", "semantic"}
        /\ \A i \in 1..Len(eng_scan.triggered_rules) :
              eng_scan.triggered_rules[i].prefix \notin InputOnlyPrefixes
        /\ eng_result.reason \in
              {"", "PII Redacted", JoinWith(", ", MapSeq(eng_scan.triggered_rules, RuleText))}
        /\ eng_scan.semantic_score = 0
        /\ \A check \in {"pii", "topics", "plugin"} :
              Contains(ChecksEnabled(eng_cfg, "validate"), check) <=>
                  \E i \in 1..Len(eng_scan.invoked) : eng_scan.invoked[i].check = check

\* C13 witness: validate_output of a text holding an injection phrase, with the
\* injection and semantic checks enabled, was blocked by the topic check alone.
C13_Witness ==
    /\ EngReturned /\ eng_call.op = "validate_output"
    /\ eng_cfg.injection /\ eng_cfg.semantic
    /\ Contains(eng_call.text, TokInject)
    /\ \E i \in BlockingTriggers : eng_scan.invoked[i].check = "topics"

-----------------------------------------------------------------------------
(* Specification of the sentinel engine with a recording audit logger       *)

\* profiles with PII redaction and topic blocking, logging to a FileAuditLogger
AuditConfigs ==
    { [ pii |-> "regex", pii_patterns |-> << "EMAIL", "PHONE" >>, set_order |-> "forward",
        injection |-> inj, topics |-> TRUE, semantic |-> FALSE,
        external |-> FALSE, langkit |-> FALSE, audit_logger |-> "file",
        broken |-> "none" ] : inj \in BOOLEAN }

AuditTexts == SeqsUpTo({TokEmail, TokInject, TokTopic}, MaxTextLen)

NextAudit ==
    \/ \E op \in EngOps, text \in AuditTexts :
          EngValidate(op, text) /\ UNCHANGED << lib_vars, gw_vars, th_vars, str_vars, fn_vars, rl_vars >>
    \/ EngReturn /\ UNCHANGED << lib_vars, gw_vars, th_vars, str_vars, fn_vars, rl_vars >>

InitSpecAudit ==
    /\ eng_cfg \in AuditConfigs
    /\ eng_shadow \in BOOLEAN
    /\ EngIdle
    /\ use_mock_llm = FALSE /\ GwIdle /\ ThIdle /\ StrIdle /\ FnIdle /\ RlIdle
    /\ lib_guardrails = << >> /\ lib_text = NoCall /\ lib_calls = << >>
    /\ lib_result = NoResult

SpecAudit == InitSpecAudit /\ [][NextAudit]_vars

\* C14: every call of validate, validate_async or validate_output hands exactly one
\* event to the audit logger before it completes; the event's valid, action, reason
\* and shadow_mode are those of the verdict returned and of the engine, its source
\* is "input" for validate and validate_async and "output" for validate_output; no
\* other step logs.
C14_OneAuditEventPerCall ==
    [][ IF eng_call.op = "none" /\ eng_call'.op # "none"
        THEN /\ Len(eng_audit') = Len(eng_audit) + 1
             /\ SubSeq(eng_audit', 1, Len(eng_audit)) = eng_audit
             /\ LET event == eng_audit'[Len(eng_audit')]
                IN /\ event.valid = eng_result'.valid
                   /\ event.action = eng_result'.action
                   /\ event.reason = eng_result'.reason
                   /\ event.shadow_mode = eng_shadow'
                   /\ event.source = (IF eng_call'.op = "validate_output"
                                      THEN "output" ELSE "input")
        ELSE eng_audit' = eng_audit ]_vars

\* C14 witness: two calls have completed, the second a validate_output whose
\* verdict was blocked, and the logger holds one event for each.
C14_Witness ==
    /\ EngReturned /\ eng_call.op = "validate_output"
    /\ Len(eng_audit) = 2
    /\ eng_audit[1].source = "input"
    /\ eng_audit[2].source = "output" /\ eng_audit[2].action = "blocked"

-----------------------------------------------------------------------------
(* Specification of the sentinel engine with one broken detector            *)

\* the detectors whose backend can raise an internal error
Breakable == {"pii", "semantic", "external", "plugin"}

\* profiles in which one enabled detector raises an internal error on every call
FaultConfigs ==
    { cfg \in [ pii : {"off", "regex", "presidio"}, pii_patterns : { << "EMAIL", "PHONE" >> },
                set_order : {"forward", "reverse"},
                injection : BOOLEAN, topics : BOOLEAN, semantic : BOOLEAN,
                external : BOOLEAN, langkit : BOOLEAN, audit_logger : {"null"},
                broken : Breakable ] :
        /\ cfg.pii = "presidio" \/ cfg.set_order = "forward"
        /\ cfg.broken = "pii" => cfg.pii = "presidio"
        /\ cfg.broken = "semantic" => cfg.semantic
        /\ cfg.broken = "external" => cfg.external
        /\ cfg.broken = "plugin" => cfg.langkit }

NextFaults ==
    \/ \E op \in EngOps, text \in EngTexts :
          EngValidate(op, text) /\ UNCHANGED << lib_vars, gw_vars, th_vars, str_vars, fn_vars, rl_vars >>
    \/ EngReturn /\ UNCHANGED << lib_vars, gw_vars, th_vars, str_vars, fn_vars, rl_vars >>

InitSpecFaults ==
    /\ eng_cfg \in FaultConfigs
    /\ eng_shadow \in BOOLEAN
    /\ EngIdle
    /\ use_mock_llm = FALSE /\ GwIdle /\ ThIdle /\ StrIdle /\ FnIdle /\ RlIdle
    /\ lib_guardrails = << >> /\ lib_text = NoCall /\ lib_calls = << >>
    /\ lib_result = NoResult

SpecFaults == InitSpecFaults /\ [][NextFaults]_vars

\* the profile with the broken detector switched off and nothing broken
WithoutBroken(cfg) ==
    [cfg EXCEPT !.broken = "none",
                !.pii = IF cfg.broken = "pii" THEN "off" ELSE @,
                !.semantic = IF cfg.broken = "semantic" THEN FALSE ELSE @,
                !.external = IF cfg.broken = "external" THEN FALSE ELSE @,
                !.langkit = IF cfg.broken = "plugin" THEN FALSE ELSE @]

\* C15: the engine is fail-open per detector: when one check raises an internal
\* error during scan, validate still returns a verdict, and it is the verdict the
\* remaining checks give, as if the broken check had passed.
C15_FailOpenPerDetector ==
    EngReturned =>
        /\ ~eng_scan.raised
        /\ eng_result = PackageResult(eng_shadow,
                            ScanOf(WithoutBroken(eng_cfg), eng_call.op, eng_call.text))

-----------------------------------------------------------------------------
(* Specification of concurrent calls of one sentinel engine                 *)

NextConcurrent ==
    \/ \E t \in Threads, op \in EngOps, text \in ConcTexts :
          ThCall(t, op, text)
          /\ UNCHANGED << lib_vars, gw_vars, str_vars, fn_vars, rl_vars, eng_call, eng_scan, eng_result, eng_audit >>
    \/ \E t \in Threads :
          ThStep(t)
          /\ UNCHANGED << lib_vars, gw_vars, str_vars, fn_vars, rl_vars, eng_call, eng_scan, eng_result, eng_audit >>
    \/ \E t \in Threads :
          ThReturn(t)
          /\ UNCHANGED << lib_vars, gw_vars, str_vars, fn_vars, rl_vars, eng_call, eng_scan, eng_result, eng_audit >>

InitSpecConcurrent ==
    /\ eng_cfg \in ConcConfigs
    /\ eng_shadow \in BOOLEAN
    /\ EngIdle /\ ThIdle /\ StrIdle /\ FnIdle /\ RlIdle
    /\ use_mock_llm = FALSE /\ GwIdle
    /\ lib_guardrails = << >> /\ lib_text = NoCall /\ lib_calls = << >>
    /\ lib_result = NoResult

SpecConcurrent == InitSpecConcurrent /\ [][NextConcurrent]_vars

\* every finished call holds the verdict the same call gives when it runs alone
ThVerdictsAsAlone ==
    \A t \in Threads :
        th_calls[t].pc = "done" =>
            LET alone == ScanOf(eng_cfg, th_calls[t].op, th_calls[t].text)
            IN /\ th_calls[t].st = alone
               /\ th_calls[t].result = PackageResult(eng_shadow, alone)

\* C16: concurrent validate / validate_async / validate_output calls on one engine
\* do not interfere: under every interleaving each call returns the verdict it
\* returns when run alone on the same text, and no call modifies the engine's
\* detector configuration.
C16_CallsDoNotInterfere ==
    /\ [] ThVerdictsAsAlone
    /\ [][eng_cfg' = eng_cfg /\ eng_shadow' = eng_shadow]_vars

\* C16 witness: two calls on different texts were in progress together, both
\* created the LangKit model, and both have finished with different verdicts.
C16_Witness ==
    /\ th_calls["t1"].pc = "done" /\ th_calls["t2"].pc = "done"
    /\ th_calls["t1"].text # th_calls["t2"].text
    /\ th_calls["t1"].result.action = "blocked"
    /\ th_calls["t2"].result.action = "redacted"
    /\ plugin_model = 2

-----------------------------------------------------------------------------
(* Specification of the StreamSanitizer                                     *)

\* the pieces received so far
StreamReceived == Flatten(str_chunks)

NextStream ==
    \/ \E n \in 1..(MaxStreamLen - Len(StreamReceived)) :
          \E chunk \in [1..n -> StreamPieces] :
             StreamProcess(chunk)
             /\ UNCHANGED << lib_vars, gw_vars, th_vars, fn_vars, rl_vars,
                             eng_call, eng_scan, eng_result, eng_audit >>
    \/ StreamFlush
       /\ UNCHANGED << lib_vars, gw_vars, th_vars, fn_vars, rl_vars,
                       eng_call, eng_scan, eng_result, eng_audit >>

InitSpecStream ==
    /\ eng_cfg \in StreamConfigs
    /\ eng_shadow \in BOOLEAN
    /\ EngIdle /\ ThIdle /\ StrIdle /\ FnIdle /\ RlIdle
    /\ use_mock_llm = FALSE /\ GwIdle
    /\ lib_guardrails = << >> /\ lib_text = NoCall /\ lib_calls = << >>
    /\ lib_result = NoResult

SpecStream == InitSpecStream /\ [][NextStream]_vars

\* everything yielded so far, as one string
StreamOutText == Concat(Flatten(str_out))

RECURSIVE StreamRunLoop(_, _, _, _, _)
\* the engine calls of process over the chunks in turn, then of flush
StreamRunLoop(cfg, shadow_mode, buffer, validated, chunks) ==
    IF chunks = << >> THEN validated \o StreamFlushCalls(cfg, shadow_mode, buffer)
    ELSE LET r == StreamLoop(cfg, shadow_mode, buffer \o Head(chunks), << >>)
         IN StreamRunLoop(cfg, shadow_mode, r.buffer, validated \o r.validated, Tail(chunks))

\* the final text of a whole run over the chunks
StreamRunText(cfg, shadow_mode, chunks) ==
    Concat(Flatten(MapSeq(StreamRunLoop(cfg, shadow_mode, << >>, << >>, chunks),
                          ValidatedEmitted)))

\* C17: the output is independent of chunking: the concatenation of everything
\* yielded by process over the chunks and then by flush is the text the same
\* stream gives when it arrives as a single chunk.
C17_ChunkingIndependent ==
    str_flushed =>
        StreamOutText = StreamRunText(eng_cfg, eng_shadow, << StreamReceived >>)

\* the openings of the markers whose reason ends with the text a check matched
MarkerHeads == { "[BLOCKED: " \o pii \o "Topic:" : pii \in {"", "PII:EMAIL, "} }

\* the marker quotes the piece: the piece is a substring of it
MarkerQuotes(marker, piece) == \E head \in MarkerHeads : marker = head \o piece \o "]"

\* in order, each sentence validated by validate_output was answered by one yielded
\* string: the marker "[BLOCKED: <reason>]" and the separator for a blocked
\* verdict, sanitized_text and the separator otherwise; the separator is whitespace
EmissionsAsSpecified ==
    /\ Len(str_out) = Len(str_validated)
    /\ \A k \in 1..Len(str_validated) :
          LET v == str_validated[k]
          IN /\ v.result = StreamValidateOutput(eng_cfg, eng_shadow, v.sentence)
             /\ str_out[k] = v.emitted
             /\ \A j \in 1..Len(v.separator) : IsSpace(v.separator[j])
             /\ IF ~v.result.valid
                THEN /\ str_out[k] = << "[BLOCKED: " \o v.result.reason \o "]" >> \o v.separator
                     /\ \A j \in 2..Len(str_out[k]) : IsSpace(str_out[k][j])
                ELSE str_out[k] = v.result.sanitized_text \o v.separator
    /\ (str_flushed /\ str_validated # << >>
          /\ ~IsTerminator(str_validated[Len(str_validated)].sentence[
                               Len(str_validated[Len(str_validated)].sentence)]))
       => str_validated[Len(str_validated)].separator = << >>

\* C18 (as stated): for every sentence whose verdict is blocked the yielded string
\* is exactly "[BLOCKED: <reason>]" followed by the sentence's separator (none in
\* flush), and no text of the blocked sentence is yielded; for every sentence whose
\* verdict is allowed or redacted it is sanitized_text followed by the separator.
C18_NoBlockedTextEmitted ==
    /\ EmissionsAsSpecified
    /\ \A k \in 1..Len(str_validated) :
          ~str_validated[k].result.valid =>
             \A j \in 1..Len(str_validated[k].sentence) :
                ~MarkerQuotes(str_out[k][1], str_validated[k].sentence[j])

\* C18 (amended): the yielded strings are as specified, and the only text of a
\* blocked sentence that is yielded is what the verdict's reason quotes: the
\* keywords of the sentence that the topic pattern matched.
C18_BlockedSentenceReplaced ==
    /\ EmissionsAsSpecified
    /\ \A k \in 1..Len(str_validated) :
          ~str_validated[k].result.valid =>
             \A j \in 1..Len(str_validated[k].sentence) :
                MarkerQuotes(str_out[k][1], str_validated[k].sentence[j])
                   => TopicPatternMatches(str_validated[k].sentence[j])

\* C18 witness: a blocked sentence with a separator was replaced, after an allowed
\* sentence was yielded, in one stream.
C18_Witness ==
    /\ \E k \in 1..Len(str_validated) :
          /\ ~str_validated[k].result.valid
          /\ str_validated[k].separator # << >>
    /\ \E k \in 1..Len(str_validated) : str_validated[k].result.valid

\* C19: after every process call consumed to its end the buffer holds no completed
\* sentence: no terminator that is followed by whitespace or ends the buffer; the
\* sentences and separators validated and yielded so far, followed by the buffer,
\* are the stream received so far.
C19_NoCompletedSentenceHeld ==
    /\ ~ \E i \in 1..Len(str_buffer) :
            /\ str_buffer[i] \in {".", "?", "!"}
            /\ i = Len(str_buffer) \/ str_buffer[i + 1] \in {" ", "\n", "\t"}
    /\ Len(str_out) = Len(str_validated)
    /\ ~str_flushed =>
          Flatten([k \in 1..Len(str_validated) |->
                      str_validated[k].sentence \o str_validated[k].separator])
            \o str_buffer = StreamReceived

\* C19 witness: one process call completed two sentences and left an unfinished
\* one in the buffer.
C19_Witness ==
    /\ ~str_flushed
    /\ \E c \in 1..Len(str_chunks) : SentenceEnd(str_chunks[c]) # 0
    /\ Len(str_validated) >= 2
    /\ str_buffer # << >>

\* the engine allowed every sentence and changed none
AllAllowedUnchanged ==
    \A k \in 1..Len(str_validated) :
        /\ str_validated[k].result.valid
        /\ Concat(str_validated[k].result.sanitized_text) = Concat(str_validated[k].sentence)

\* C20 (as stated): when the engine allows every sentence unchanged, everything
\* yielded by the process calls and then flush, concatenated, equals the
\* concatenation of the chunks, and each input character is validated in exactly
\* one engine call.
C20_EveryCharacterValidated ==
    (str_flushed /\ AllAllowedUnchanged) =>
        /\ StreamOutText = Concat(StreamReceived)
        /\ Flatten([k \in 1..Len(str_validated) |-> str_validated[k].sentence])
             = StreamReceived

\* C20 (amended): when the engine allows every sentence unchanged, the output
\* equals the concatenation of the chunks; the sentences validated, each followed
\* by its separator, are the input in arrival order, so each character is in at
\* most one engine call: the characters of the sentences in exactly one, the
\* whitespace of the separators in none.
C20_InOrderNothingLost ==
    (str_flushed /\ AllAllowedUnchanged) =>
        /\ StreamOutText = Concat(StreamReceived)
        /\ Flatten([k \in 1..Len(str_validated) |->
                       str_validated[k].sentence \o str_validated[k].separator])
             = StreamReceived
        /\ \A k \in 1..Len(str_validated) :
              /\ str_validated[k].sentence # << >>
              /\ \A j \in 1..Len(str_validated[k].separator) :
                    IsSpace(str_validated[k].separator[j])

\* C20 witness: a stream of several chunks with two sentences and a separator
\* came out unchanged.
C20_Witness ==
    /\ str_flushed /\ AllAllowedUnchanged
    /\ Len(str_chunks) >= 2
    /\ Len(str_validated) >= 2
    /\ \E k \in 1..Len(str_validated) : str_validated[k].separator # << >>

\* C21: flush always drains: the step of flush leaves the buffer empty whatever the
\* verdict; a non-empty buffer is validated whole as one final sentence by
\* validate_output (source output) and answered by one yielded string with no
\* separator; on an empty buffer flush makes no engine call and yields nothing.
C21_FlushDrains ==
    [][ (~str_flushed /\ str_flushed') =>
           /\ str_buffer' = << >>
           /\ IF str_buffer = << >>
              THEN str_validated' = str_validated /\ str_out' = str_out
              ELSE /\ Len(str_validated') = Len(str_validated) + 1
                   /\ SubSeq(str_validated', 1, Len(str_validated)) = str_validated
                   /\ LET v == str_validated'[Len(str_validated')]
                      IN /\ v.sentence = str_buffer
                         /\ v.separator = << >>
                         /\ v.result = PackageResult(eng_shadow,
                                           Scan(eng_cfg, Tokenize(str_buffer), "output"))
                         /\ str_out' = Append(str_out, v.emitted) ]_vars

\* C21 witness: flush validated an unfinished rest that holds an injection phrase,
\* which only an input scan would block, and drained the buffer.
C21_Witness ==
    /\ str_flushed /\ str_buffer = << >>
    /\ str_validated # << >>
    /\ LET v == str_validated[Len(str_validated)]
       IN /\ ~IsTerminator(v.sentence[Len(v.sentence)])
          /\ \E j \in 1..Len(v.sentence) : v.sentence[j] = TokInject
          /\ v.result.valid

-----------------------------------------------------------------------------
(* Specifications of the functions applied to one argument                   *)

\* everything but the function call is at rest
RestIdle ==
    /\ lib_guardrails = << >> /\ lib_text = NoCall /\ lib_calls = << >>
    /\ lib_result = NoResult
    /\ use_mock_llm = FALSE /\ GwIdle
    /\ eng_cfg \in StreamConfigs /\ eng_shadow = FALSE
    /\ EngIdle /\ ThIdle /\ StrIdle /\ RlIdle

rest_vars == << lib_vars, gw_vars, eng_vars, th_vars, str_vars, rl_vars >>

NextRouter == GetRouteCall /\ UNCHANGED rest_vars

InitSpecRouter == fn_arg \in RouterModels /\ fn_ret = NoRet /\ RestIdle

SpecRouter == InitSpecRouter /\ [][NextRouter]_vars

\* the name begins, in any case, with the word followed by "-"
HasPrefix(name, word) ==
    /\ Len(name) >= 2
    /\ name[1] \in { word, "GPT", "Claude", "Gemini" }
    /\ LowerPart(name[1]) = word
    /\ name[2] = "-"

\* the provider the mapping selects for a model name
ProviderOf(name) ==
    IF HasPrefix(name, "gpt") \/ HasPrefix(name, "o1") THEN "openai"
    ELSE IF HasPrefix(name, "claude") THEN "anthropic"
    ELSE IF HasPrefix(name, "gemini") THEN "gemini"
    ELSE IF HasPrefix(name, "grok") THEN "xai"
    ELSE "local"

\* the credential of each provider
KeyOf == [openai |-> OpenaiKey, anthropic |-> AnthropicKey, gemini |-> GeminiKey, xai |-> XaiKey]

\* the route carries the key: as a header value, in a bearer token, or in the URL
RouteCarries(route, name, key) ==
    \/ \E h \in DOMAIN route.headers : route.headers[h] \in { key, "Bearer " \o key }
    \/ route.url = "https://generativelanguage.googleapis.com/v1beta/models/"
                      \o ModelString(LowerModel(name)) \o ":generateContent?key=" \o key

\* C22: get_route is a total, case-insensitive prefix mapping: gpt-/o1- to openai at
\* api.openai.com, claude- to anthropic at api.anthropic.com, gemini- to gemini at
\* the generateContent URL of the model, grok- to openai at api.x.ai, every other
\* name to openai at the local URL; Content-Type is always application/json and
\* the route carries the credential of the selected provider and of no other.
C22_RouteMapping ==
    fn_ret.op = "get_route" =>
        LET provider == ProviderOf(fn_arg)
        IN /\ fn_ret.value.adapter_type =
                 (IF provider \in {"anthropic", "gemini"} THEN provider ELSE "openai")
           /\ provider = "openai" => fn_ret.value.url = "https://api.openai.com/v1/chat/completions"
           /\ provider = "anthropic" => fn_ret.value.url = "https://api.anthropic.com/v1/messages"
           /\ provider = "xai" => fn_ret.value.url = "https://api.x.ai/v1/chat/completions"
           /\ provider = "local" => fn_ret.value.url = LocalUrl
           /\ provider = "gemini" =>
                 fn_ret.value.url = "https://generativelanguage.googleapis.com/v1beta/models/"
                                \o ModelString(LowerModel(fn_arg))
                                \o ":generateContent?key=" \o GeminiKey
           /\ provider \in {"openai", "xai"} =>
                 fn_ret.value.headers.Authorization = "Bearer " \o KeyOf[provider]
           /\ provider = "anthropic" =>
                 /\ fn_ret.value.headers.XApiKey = AnthropicKey
                 /\ fn_ret.value.headers.AnthropicVersion = "2023-06-01"
           /\ fn_ret.value.headers.ContentType = "application/json"
           /\ \A p \in DOMAIN KeyOf :
                 RouteCarries(fn_ret.value, fn_arg, KeyOf[p]) <=> p = provider

\* C22 witness: a name written in capitals was routed to its provider with that
\* provider's key.
C22_Witness ==
    /\ fn_ret.op = "get_route"
    /\ Len(fn_arg) = MaxNameLen /\ fn_arg[1] = "Claude" /\ fn_arg[2] = "-"
    /\ fn_ret.value.adapter_type = "anthropic"
    /\ fn_ret.value.headers.XApiKey = AnthropicKey

NextAdapter == OpenaiToAnthropicCall /\ UNCHANGED rest_vars

InitSpecAdapter == fn_arg \in AdapterPayloads /\ fn_ret = NoRet /\ RestIdle

SpecAdapter == InitSpecAdapter /\ [][NextAdapter]_vars

\* the positions of the system messages of a message list
SystemPositions(messages) == { i \in 1..Len(messages) : messages[i].role = "system" }

\* the smallest member of a non-empty set of positions
First(S) == CHOOSE i \in S : \A j \in S : i <= j

\* the list without the message at position i
Without(messages, i) == SubSeq(messages, 1, i - 1) \o SubSeq(messages, i + 1, Len(messages))

\* C23: openai_to_anthropic puts the content of the first system message into the
\* top-level system field and removes that message from messages; all remaining
\* messages stay in their order with their roles, for every message list; a list
\* without a system message passes through whole and gets no system field.
C23_FirstSystemExtracted ==
    fn_ret.op = "openai_to_anthropic" =>
        LET messages == fn_arg.messages
            sys == SystemPositions(messages)
        IN IF sys = {}
           THEN fn_ret.value.system = NoText /\ fn_ret.value.messages = messages
           ELSE /\ fn_ret.value.system = messages[First(sys)].content
                /\ fn_ret.value.messages = Without(messages, First(sys))

NextFactory == LoadCall /\ UNCHANGED rest_vars

InitSpecFactory == fn_arg \in Profiles /\ fn_ret = NoRet /\ RestIdle

SpecFactory == InitSpecFactory /\ [][NextFactory]_vars

\* C24: a profile that cannot be loaded (unreadable file, invalid YAML, a config on
\* which engine construction fails, or no file at all) makes load fail with an
\* error; an engine is returned only for a profile that loaded, and it has
\* exactly the detectors of the requested profile.
C24_LoadFailureAborts ==
    fn_ret.op = "load" =>
        IF fn_arg.where = "nowhere" \/ fn_arg.file.state # "ok"
        THEN fn_ret.value.kind = "raised"
        ELSE fn_ret.value = EngineOf(fn_arg.file.detectors)

NextSemantic == SemanticCheckCall /\ UNCHANGED rest_vars

InitSpecSemantic == fn_arg \in SemanticInputs /\ fn_ret = NoRet /\ RestIdle

SpecSemantic == InitSpecSemantic /\ [][NextSemantic]_vars

\* the largest of the scores
MaxScore(scores) == CHOOSE v \in { scores[k] : k \in DOMAIN scores } :
                        \A k \in DOMAIN scores : scores[k] <= v

\* C25: the semantic check blocks exactly when the maximum similarity is greater
\* than or equal to the threshold (a score equal to the threshold blocks), and the
\* intent named is the lowest-index intent attaining the maximum.
C25_BlocksAtThreshold ==
    fn_ret.op = "semantic" =>
        /\ fn_ret.value.blocked <=> MaxScore(fn_arg.scores) >= fn_arg.threshold
        /\ fn_ret.value.blocked =>
              \E k \in DOMAIN fn_arg.scores :
                 /\ fn_arg.scores[k] = MaxScore(fn_arg.scores)
                 /\ \A j \in 1..(k - 1) : fn_arg.scores[j] < MaxScore(fn_arg.scores)
                 /\ fn_ret.value.matched_intent = ForbiddenIntents[k]

NextPii == PiiTwiceCall /\ UNCHANGED rest_vars

InitSpecPii == fn_arg \in PiiInputs /\ fn_ret = NoRet /\ RestIdle

SpecPii == InitSpecPii /\ [][NextPii]_vars

\* C26: PII redaction is idempotent: for every text, the detector applied to its own
\* sanitized output changes nothing and reports no PII.
C26_PiiIdempotent ==
    fn_ret.op = "pii" =>
        /\ fn_ret.value.second.sanitized_text = fn_ret.value.first.sanitized_text
        /\ ~fn_ret.value.second.found

\* C27: chat_completions schedules exactly one audit record for every request on
\* every path: verdict "BLOCKED: <reason>" when the input is blocked, "PASSED" when
\* the final status is 200 and "FAILED_UPSTREAM_<code>" otherwise, the 502 of a
\* transport failure included; nothing is scheduled before the handler reaches
\* its return, and no path schedules two.
C27_OneAuditRecordPerRequest ==
    /\ gw_pc # "done" => gw_audit = << >>
    /\ gw_pc = "done" =>
          /\ Len(gw_audit) = 1
          /\ gw_audit[1].verdict =
                 (IF ~gw_verdict.valid THEN "BLOCKED: " \o gw_verdict.reason
                  ELSE IF gw_response.status_code = 200 THEN "PASSED"
                  ELSE "FAILED_UPSTREAM_" \o ToString(gw_response.status_code))

\* C27 witness: a request whose POST raised was answered with 502 and audited as
\* a failed upstream call.
C27_Witness ==
    /\ gw_pc = "done"
    /\ gw_reply.kind = "transport_error"
    /\ gw_response.status_code = 502
    /\ gw_audit = << AuditTask(gw_input_text, gw_verdict.sanitized_text, "FAILED_UPSTREAM_502") >>

\* C28: for the same engine and the same text validate_async returns the verdict
\* validate returns (valid, action, reason, sanitized_text): scan_async applies the
\* same checks in the same order as scan, the external guard included.
C28_AsyncSameAsSync ==
    (EngReturned /\ eng_call.op = "validate_async") =>
        LET sync == Scan(eng_cfg, eng_call.text, "input")
        IN /\ eng_result = PackageResult(eng_shadow, sync)
           /\ eng_scan.invoked = sync.invoked

-----------------------------------------------------------------------------
(* Specification of the RateLimitMiddleware with concurrent dispatch calls   *)

rl_rest == << lib_vars, gw_vars, eng_vars, th_vars, str_vars, fn_vars >>

NextRateLimit ==
    \/ \E t \in Threads, c \in Clients, p \in Paths : RlDispatch(t, c, p) /\ UNCHANGED rl_rest
    \/ \E t \in Threads : RlAcquire(t) /\ UNCHANGED rl_rest
    \/ \E t \in Threads : RlClean(t) /\ UNCHANGED rl_rest
    \/ \E t \in Threads : RlCheck(t) /\ UNCHANGED rl_rest
    \/ \E t \in Threads : RlRecord(t) /\ UNCHANGED rl_rest
    \/ \E t \in Threads : RlReturn(t) /\ UNCHANGED rl_rest
    \/ RlTick /\ UNCHANGED rl_rest

InitSpecRateLimit ==
    /\ lib_guardrails = << >> /\ lib_text = NoCall /\ lib_calls = << >>
    /\ lib_result = NoResult
    /\ use_mock_llm = FALSE /\ GwIdle
    /\ eng_cfg \in StreamConfigs /\ eng_shadow = FALSE
    /\ EngIdle /\ ThIdle /\ StrIdle /\ FnIdle /\ RlIdle

SpecRateLimit == InitSpecRateLimit /\ [][NextRateLimit]_vars

\* the decisions that admitted a request of the client
Admissions(c) == { i \in DOMAIN rl_log : rl_log[i].client_ip = c /\ rl_log[i].admitted }

\* the admissions of the client that lay within the window when decision k was taken
RecentAdmissions(k) ==
    { j \in Admissions(rl_log[k].client_ip) :
         j < k /\ rl_log[k].current_time - rl_log[j].current_time < window_seconds }

\* C29: for every client and under every interleaving of concurrent dispatch calls,
\* the /v1/ requests admitted with admission times inside any interval shorter than
\* window_seconds never exceed max_requests; a request arriving when max_requests
\* admissions lie within the last window_seconds gets 429 and is not passed to
\* call_next, and every other /v1/ request is admitted.
C29_AdmissionBound ==
    /\ \A c \in Clients, a \in 0..MaxTime :
          Cardinality({ i \in Admissions(c) :
                          a <= rl_log[i].current_time
                          /\ rl_log[i].current_time < a + window_seconds }) <= max_requests
    /\ \A k \in DOMAIN rl_log :
          rl_log[k].admitted <=> Cardinality(RecentAdmissions(k)) < max_requests
    /\ \A t \in Threads :
          (rl_calls[t].pc = "call_next" /\ IsApiPath(rl_calls[t].path)) =>
              \E i \in Admissions(rl_calls[t].client_ip) :
                  rl_log[i].current_time = rl_calls[t].current_time

\* C29 witness: a request was rejected after max_requests admissions of its client,
\* by a dispatch call that held the lock while another call was waiting for it.
C29_Witness ==
    /\ \E k \in DOMAIN rl_log :
          ~rl_log[k].admitted /\ Cardinality(RecentAdmissions(k)) = max_requests
    /\ \E t, u \in Threads : rl_calls[t].pc = "rejected" /\ rl_calls[u].pc = "acquire"

\* C30: a timestamp is recorded only for an admitted /v1/ request: the record of a
\* client changes only in a /v1/ dispatch call of that client, by the append of the
\* admitted request's time or by a clean-up that drops expired timestamps of a
\* request that is then admitted; a rejected request and a request outside /v1/
\* change no record. A request is rejected only while the oldest recorded
\* admission of its client is less than window_seconds old, so a rejected client
\* is admitted again once that time has passed, whatever it sent meanwhile.
C30_OnlyAdmittedRecorded ==
    [][ /\ \A c \in Clients :
             rl_requests'[c] # rl_requests[c] =>
                \E t \in Threads :
                   /\ rl_calls[t].client_ip = c /\ IsApiPath(rl_calls[t].path)
                   /\ \/ /\ rl_calls[t].pc = "record" /\ rl_calls'[t].pc = "call_next"
                         /\ rl_requests'[c] = Append(rl_requests[c], rl_calls[t].current_time)
                      \/ /\ rl_calls[t].pc = "clean"
                         /\ Len(rl_requests'[c]) < Len(rl_requests[c])
                         /\ Len(rl_requests'[c]) < max_requests
        /\ \A t \in Threads :
             (rl_calls[t].pc = "check" /\ rl_calls'[t].pc = "rejected") =>
                /\ rl_requests[rl_calls[t].client_ip] # << >>
                /\ rl_calls[t].current_time - rl_requests[rl_calls[t].client_ip][1]
                      < window_seconds ]_vars

\* C30 witness: a client was admitted, rejected, and admitted again after the
\* window of its oldest admission had passed, while the other client's record
\* stayed empty.
C30_Witness ==
    \E c \in Clients, i, k, j \in DOMAIN rl_log :
       /\ i < k /\ k < j
       /\ rl_log[i].client_ip = c /\ rl_log[k].client_ip = c /\ rl_log[j].client_ip = c
       /\ rl_log[i].admitted /\ ~rl_log[k].admitted /\ rl_log[j].admitted
       /\ rl_log[j].current_time - rl_log[i].current_time >= window_seconds
       /\ \A d \in Clients \ {c} : rl_requests[d] = << >>

====
